---------------------------- MODULE Spec2Model ----------------------------
(***************************************************************************)
(* The Poisson run-distribution and expected-value core of                 *)
(* src/ev_poisson.py and src/modules/analytics.py.                         *)
(*                                                                         *)
(* Number representation.                                                  *)
(*   - Run averages are whole numbers of runs; the blended rate            *)
(*     (team_avg + opponent_avg) / 2 is the rational <<n, 2>>.             *)
(*   - A probability mass (a Python float in [0, 1]) is a fixed-point      *)
(*     integer: the mass p is held as floor(p * Scale), Scale = 2^30.      *)
(*     Every rounding is downwards, so a modelled mass never exceeds the   *)
(*     real one.  NaN, the value scipy returns outside the domain of a     *)
(*     distribution, is the value NaN = -1, which is no mass.              *)
(*   - Money (payout, expected value) is an exact rational <<num, den>>    *)
(*     in lowest terms with den > 0; a probability handed to               *)
(*     calculate_expected_value is a rational over ProbDen.                *)
(* All integers stay below 2^31.                                           *)
(***************************************************************************)
EXTENDS Integers, Sequences, FiniteSets

VARIABLES op, args, outcome, branch, frame, earlier, threads, key_manager,
          error_handler, clock, handled, retry, scheduler, aggregation,
          analysis

\* the objects of the other modules, which the calls above never touch
services ==
    <<key_manager, error_handler, clock, handled, retry, scheduler,
      aggregation, analysis>>

vars == <<op, args, outcome, branch, frame, earlier, threads, services>>

---------------------------------------------------------------------------
(* Bounds of the inputs the callers draw.                                  *)

\* run averages range over -NegAvg..MaxAvg (nothing validates the sign)
MaxAvg == 8
NegAvg == 2
\* explicit max_runs arguments range over -NegRuns..MaxRunsArg
MaxRunsArg == 4
NegRuns == 2
\* probabilities are ProbDen-ths, from -ProbSlack/ProbDen to 1 + ProbSlack/ProbDen
ProbDen == 10
ProbSlack == 2
\* American odds are the multiples of OddsStep in -MaxOddsSteps..MaxOddsSteps
OddsStep == 10
MaxOddsSteps == 20
\* stakes are the multiples of StakeStep in -1..MaxStakeSteps
StakeStep == 50
MaxStakeSteps == 2

\* calls counted after a remembered call
MaxBetween == 2

\* max_runs: int = 15
DefaultMaxRuns == 15
\* bet_amount: float = 100
DefaultBetAmount == 100
\* the 100 of American odds: odds / 100 and 100 / abs(odds)
OddsBase == 100

\* number of factors kept of the series of the exponential
ExpTerms == 14

\* fixed-point resolution of a probability mass
Limb == 2^15
Scale == Limb * Limb

\* NaN, below every mass
NaN == -1

---------------------------------------------------------------------------
(* Integer helpers.                                                        *)

Abs(x) == IF x < 0 THEN -x ELSE x

RECURSIVE GCD(_, _)
GCD(a, b) == IF b = 0 THEN Abs(a) ELSE GCD(Abs(b), Abs(a) % Abs(b))

\* floor(a * b / c) for a >= 0, b >= 0, c > 0 with (c - 1) * b below 2^31:
\* a * b = (a \div c) * b * c + (a % c) * b, and only the small part is
\* multiplied out.
MulDiv(a, b, c) == (a \div c) * b + ((a % c) * b) \div c

\* ceiling(a / c) for a >= 0, c > 0
CeilDiv(a, c) == (a + c - 1) \div c

\* Product of two fixed-point masses x, y in 0..Scale, rounded down:
\* floor(x * y / Scale), by halves of Limb = sqrt(Scale) so that no partial
\* product reaches 2^31.
FMul(x, y) ==
    LET xh == x \div Limb
        xl == x % Limb
        yh == y \div Limb
        yl == y % Limb
    IN  xh * yh + ((xh * yl + xl * yh) + (xl * yl) \div Limb) \div Limb

---------------------------------------------------------------------------
(* Exact rationals <<num, den>>, den > 0, in lowest terms.                 *)

Rat(n, d) ==
    LET g == GCD(n, d)
        s == IF d < 0 THEN -1 ELSE 1
    IN  <<s * (n \div g), s * (d \div g)>>

RMul(x, y) == Rat(x[1] * y[1], x[2] * y[2])

RSub(x, y) == Rat(x[1] * y[2] - y[1] * x[2], x[2] * y[2])

ROne == <<1, 1>>

---------------------------------------------------------------------------
(* The exponential and the Poisson mass function (numpy / scipy).          *)

\* Horner evaluation of exp(-1/d) = 1 - (1/d)(1 - (1/2d)(1 - (1/3d)( ... ))),
\* cut after ExpTerms factors, with the rounding directed so that ExpLo is
\* a lower and ExpHi an upper bound of the factor at depth j.
RECURSIVE ExpLo(_, _)
RECURSIVE ExpHi(_, _)
ExpLo(d, j) ==
    IF j > ExpTerms THEN 0
    ELSE Scale - CeilDiv(ExpHi(d, j + 1), d * j)
ExpHi(d, j) ==
    IF j > ExpTerms THEN Scale
    ELSE Scale - ExpLo(d, j + 1) \div (d * j)

\* x^n in fixed point by repeated squaring, every product rounded down
RECURSIVE FPow(_, _)
FPow(x, n) ==
    IF n = 0 THEN Scale
    ELSE LET half == FPow(x, n \div 2)
             square == FMul(half, half)
         IN  IF n % 2 = 1 THEN FMul(square, x) ELSE square

\* the denominator of every rate a caller can draw: the averages are
\* integers, so a blended rate is a number of halves
RateDen == 2

\* exp(-1/2), rounded down, evaluated once
ExpNegHalf == ExpLo(RateDen, 1)

\* exp(-mu) for a rate mu = <<n, d>> with n >= 0, rounded down
ExpNeg(mu) ==
    FPow(IF mu[2] = RateDen THEN ExpNegHalf ELSE ExpLo(mu[2], 1), mu[1])

\* The Poisson mass mu^k exp(-mu) / k! for mu = <<n, d>>, n >= 0, k >= 0,
\* rounded down: mass(0) = exp(-mu), mass(k) = mass(k - 1) * mu / k.
RECURSIVE PoissonMass(_, _)
PoissonMass(k, mu) ==
    IF k = 0 THEN ExpNeg(mu)
    ELSE MulDiv(PoissonMass(k - 1, mu), mu[1], mu[2] * k)

\* poisson.pmf with the domain check mu > 0 in place of mu >= 0
poisson_pmf_positive_rate_only(k, mu) ==
    IF mu[1] <= 0 THEN NaN ELSE PoissonMass(k, mu)

\* scipy.stats.poisson.pmf(k, mu) for an integer k >= 0: NaN outside the
\* distribution's domain mu >= 0.
poisson_pmf(k, mu) == IF mu[1] < 0 THEN NaN ELSE PoissonMass(k, mu)

\* modules/analytics.py: (lam ** k) * np.exp(-lam) / math.factorial(k),
\* for lam >= 0 (0 ** 0 is 1 in Python)
poisson_prob(lam, k) == PoissonMass(k, lam)

---------------------------------------------------------------------------
(* Outcomes of a call.                                                     *)

Returned(v) == [kind |-> "returned", value |-> v, error |-> "none"]

Raised(e) == [kind |-> "raised", value |-> "none", error |-> e]

---------------------------------------------------------------------------
(* ev_poisson.py                                                           *)

\* the blended rate with the opponent's average left out
expected_runs_team_only(team_avg, opponent_avg) == <<2 * team_avg, 2>>

\* expected_runs = (team_avg + opponent_avg) / 2
expected_runs_of(team_avg, opponent_avg) == <<team_avg + opponent_avg, 2>>

\* Helpers of the properties below.
\* sum of the values of a mapping over 0..k; NaN when a value is NaN
RECURSIVE SumTo(_, _)
SumTo(f, k) ==
    IF k < 0 THEN 0
    ELSE LET rest == SumTo(f, k - 1)
         IN  IF rest = NaN \/ f[k] = NaN THEN NaN ELSE rest + f[k]

\* the total mass of a returned mapping with keys 0..max_runs
MassSum(f, max_runs) == SumTo(f, max_runs)

\* floor(x * 2^bits / c) for 0 <= x < c, one binary digit at a time
RECURSIVE DivBits(_, _, _)
DivBits(x, c, bits) ==
    IF bits = 0 THEN 0
    ELSE IF 2 * x >= c
         THEN 2^(bits - 1) + DivBits(2 * x - c, c, bits - 1)
         ELSE DivBits(2 * x, c, bits - 1)

\* floor(x * Scale / c) for 0 <= x <= c, c > 0
FDiv(x, c) == IF x = c THEN Scale ELSE DivBits(x, c, 30)

\* the distribution rescaled so that the truncated masses sum to 1
calculate_poisson_probabilities_renormalised(team_avg, opponent_avg, max_runs) ==
    LET expected_runs == expected_runs_of(team_avg, opponent_avg)
        raw == [runs \in 0..max_runs |-> poisson_pmf(runs, expected_runs)]
        total == MassSum(raw, max_runs)
    IN  Returned([runs \in 0..max_runs |->
                      IF total = NaN \/ total = 0 THEN raw[runs]
                      ELSE FDiv(raw[runs], total)])

\* the loop started at 1: probabilities[runs] = poisson.pmf(runs + 1, ...)
calculate_poisson_probabilities_shifted(team_avg, opponent_avg, max_runs) ==
    LET expected_runs == expected_runs_of(team_avg, opponent_avg)
    IN  Returned([runs \in 0..max_runs |->
                      poisson_pmf(runs + 1, expected_runs)])

\* for runs in range(max_runs + 1): probabilities[runs] = poisson.pmf(...)
calculate_poisson_probabilities(team_avg, opponent_avg, max_runs) ==
    LET expected_runs == expected_runs_of(team_avg, opponent_avg)
        probabilities == [runs \in 0..max_runs |->
                              poisson_pmf(runs, expected_runs)]
    IN  Returned(probabilities)

\* the test written `odds >= 0`
odds_branch_zero_positive(odds) ==
    IF odds >= 0 THEN "positive" ELSE "negative"

\* the branch of `if odds > 0:` a call takes
odds_branch(odds) == IF odds > 0 THEN "positive" ELSE "negative"

\* payout = bet_amount * (odds / 100)
positive_payout(odds, bet_amount) ==
    RMul(<<bet_amount, 1>>, Rat(odds, OddsBase))

\* the favourite's payout computed like the underdog's
negative_payout_as_positive(odds, bet_amount) ==
    RMul(<<bet_amount, 1>>, Rat(Abs(odds), OddsBase))

\* payout = bet_amount * (100 / abs(odds)), for odds # 0
negative_payout(odds, bet_amount) ==
    RMul(<<bet_amount, 1>>, Rat(OddsBase, Abs(odds)))

\* the stake counted as lost on every outcome
ev_of_stake_always_lost(probability, payout, bet_amount) ==
    RSub(RMul(probability, payout), <<bet_amount, 1>>)

\* ev = (probability * payout) - ((1 - probability) * bet_amount)
ev_of(probability, payout, bet_amount) ==
    RSub(RMul(probability, payout),
         RMul(RSub(ROne, probability), <<bet_amount, 1>>))

\* calculate_expected_value(probability, odds, bet_amount): the value
\* returned, or ZeroDivisionError from 100 / abs(odds) at odds 0
calculate_expected_value(probability, odds, bet_amount) ==
    IF odds_branch(odds) = "positive"
    THEN Returned(ev_of(probability, positive_payout(odds, bet_amount),
                        bet_amount))
    ELSE IF Abs(odds) = 0
         THEN Raised("ZeroDivisionError")
         ELSE Returned(ev_of(probability,
                             negative_payout(odds, bet_amount), bet_amount))

---------------------------------------------------------------------------
(* calculate_game_probabilities(home_team_avg, away_team_avg,              *)
(* home_allowed_avg, away_allowed_avg): the two run vectors at the         *)
(* blended rates, the win / tie enumeration and the total-runs             *)
(* distribution.  A NaN mass makes every product and sum it enters NaN.    *)

\* the number of parameters of def calculate_game_probabilities
GameParameters == 4

\* the enumeration cut five runs short
game_max_runs_short == 15 - 5

\* max_runs = 15, a local of the function
game_max_runs == 15

Min(a, b) == IF a < b THEN a ELSE b

\* float product of two masses
NMul(x, y) == IF x = NaN \/ y = NaN THEN NaN ELSE FMul(x, y)

\* float sum of two masses
NAdd(x, y) == IF x = NaN \/ y = NaN THEN NaN ELSE x + y

\* the home rate blended with the home side's own allowed average
home_expected_own_allowed(home_team_avg, away_team_avg, home_allowed_avg, away_allowed_avg) ==
    <<home_team_avg + home_allowed_avg, 2>>

\* the home rate left as the sum of the two averages
home_expected_unhalved(home_team_avg, away_team_avg, home_allowed_avg, away_allowed_avg) ==
    <<2 * (home_team_avg + away_allowed_avg), 2>>

\* home_expected = (home_team_avg + away_allowed_avg) / 2
home_expected_of(home_team_avg, away_team_avg, home_allowed_avg, away_allowed_avg) ==
    <<home_team_avg + away_allowed_avg, 2>>

\* the away side blended with its own allowed average
away_expected_own_allowed(home_team_avg, away_team_avg, home_allowed_avg, away_allowed_avg) ==
    <<away_team_avg + away_allowed_avg, 2>>

\* away_expected = (away_team_avg + home_allowed_avg) / 2
away_expected_of(home_team_avg, away_team_avg, home_allowed_avg, away_allowed_avg) ==
    <<away_team_avg + home_allowed_avg, 2>>

\* [poisson.pmf(i, expected) for i in range(lo, hi + 1)], built by halves
RECURSIVE pmf_range(_, _, _)
pmf_range(expected, lo, hi) ==
    IF lo > hi THEN <<>>
    ELSE IF lo = hi THEN <<poisson_pmf(lo, expected)>>
    ELSE LET mid == (lo + hi) \div 2
         IN  pmf_range(expected, lo, mid) \o pmf_range(expected, mid + 1, hi)

\* the lists pmf_range(n / 2, 0, max_runs) for n in lo..hi, built by halves
RECURSIVE pmf_rows(_, _)
pmf_rows(lo, hi) ==
    IF lo > hi THEN <<>>
    ELSE IF lo = hi THEN <<pmf_range(<<lo, RateDen>>, 0, game_max_runs)>>
    ELSE LET mid == (lo + hi) \div 2
         IN  pmf_rows(lo, mid) \o pmf_rows(mid + 1, hi)

\* the list of every rate a caller can draw: a list depends on its rate
\* alone, so it is evaluated once here and looked up by each call
PmfRows == pmf_rows(-2 * NegAvg, 2 * MaxAvg)

\* [poisson.pmf(i, expected) for i in range(max_runs + 1)]; entry i is at
\* index i + 1
pmf_list(expected) ==
    IF /\ expected[2] = RateDen
       /\ -2 * NegAvg <= expected[1]
       /\ expected[1] <= 2 * MaxAvg
    THEN PmfRows[expected[1] + 2 * NegAvg + 1]
    ELSE pmf_range(expected, 0, game_max_runs)

\* the accumulators before the enumeration
NoWins == [home_win_prob |-> 0, away_win_prob |-> 0, tie_prob |-> 0]

\* the if / elif chain without its else: equal scores are dropped
win_branch_no_tie(home_runs, away_runs) ==
    IF home_runs > away_runs THEN "home_win_prob"
    ELSE IF away_runs > home_runs THEN "away_win_prob"
    ELSE "none"

\* the first test written `home_runs >= away_runs`
win_branch_ties_to_home(home_runs, away_runs) ==
    IF home_runs >= away_runs THEN "home_win_prob"
    ELSE IF away_runs > home_runs THEN "away_win_prob"
    ELSE "tie_prob"

\* the accumulator the if / elif / else chain selects for a pair of scores
win_branch(home_runs, away_runs) ==
    IF home_runs > away_runs THEN "home_win_prob"
    ELSE IF away_runs > home_runs THEN "away_win_prob"
    ELSE "tie_prob"

\* one pass of the inner loop body: prob is added to the selected accumulator
accumulate(acc, home_runs, away_runs, prob) ==
    LET target == win_branch(home_runs, away_runs)
    IN  IF target = "none"
        THEN acc
        ELSE [acc EXCEPT ![target] = NAdd(@, prob)]

\* two sets of accumulators added
AddWins(x, y) ==
    [home_win_prob |-> NAdd(x.home_win_prob, y.home_win_prob),
     away_win_prob |-> NAdd(x.away_win_prob, y.away_win_prob),
     tie_prob |-> NAdd(x.tie_prob, y.tie_prob)]

\* what the passes of the inner loop for away_runs in lo..hi add to the
\* accumulators at one home_runs.  The passes are taken by halves: the
\* masses are integers, so the order of the additions does not change the
\* sums.
RECURSIVE away_loop(_, _, _, _, _)
away_loop(home_probs, away_probs, home_runs, lo, hi) ==
    IF lo > hi THEN NoWins
    ELSE IF lo = hi
    THEN accumulate(NoWins, home_runs, lo,
                    NMul(home_probs[home_runs + 1], away_probs[lo + 1]))
    ELSE LET mid == (lo + hi) \div 2
         IN  AddWins(away_loop(home_probs, away_probs, home_runs, lo, mid),
                     away_loop(home_probs, away_probs, home_runs,
                               mid + 1, hi))

\* what the passes of the outer loop for home_runs in lo..hi add to the
\* accumulators, each pass running the inner loop over range(max_runs + 1)
RECURSIVE home_loop(_, _, _, _)
home_loop(home_probs, away_probs, lo, hi) ==
    IF lo > hi THEN NoWins
    ELSE IF lo = hi
    THEN away_loop(home_probs, away_probs, lo, 0, game_max_runs)
    ELSE LET mid == (lo + hi) \div 2
         IN  AddWins(home_loop(home_probs, away_probs, lo, mid),
                     home_loop(home_probs, away_probs, mid + 1, hi))

\* the inner range of the totals written range(min(total, max_runs + 1))
total_loop_stop_short(total) == Min(total, game_max_runs + 1)

\* min(total + 1, max_runs + 1), the end of the inner range of the totals
total_loop_stop(total) == Min(total + 1, game_max_runs + 1)

\* the test of the totals written `0 <= away_runs < max_runs`
away_runs_in_range_strict(away_runs) ==
    0 <= away_runs /\ away_runs < game_max_runs

\* if 0 <= away_runs <= max_runs
away_runs_in_range(away_runs) ==
    0 <= away_runs /\ away_runs <= game_max_runs

\* what the passes of the inner loop of the totals for home_runs in lo..hi
\* add to total_prob at one total; a pass whose away_runs = total - home_runs
\* is outside 0..max_runs adds nothing
RECURSIVE total_loop(_, _, _, _, _)
total_loop(home_probs, away_probs, total, lo, hi) ==
    IF lo > hi THEN 0
    ELSE IF lo = hi
    THEN LET away_runs == total - lo
         IN  IF away_runs_in_range(away_runs)
             THEN NAdd(0, NMul(home_probs[lo + 1], away_probs[away_runs + 1]))
             ELSE 0
    ELSE LET mid == (lo + hi) \div 2
         IN  NAdd(total_loop(home_probs, away_probs, total, lo, mid),
                  total_loop(home_probs, away_probs, total, mid + 1, hi))

\* the locals of calculate_game_probabilities when it reaches its return
game_locals(home_team_avg, away_team_avg, home_allowed_avg, away_allowed_avg) ==
    LET home_expected == home_expected_of(home_team_avg, away_team_avg,
                                          home_allowed_avg, away_allowed_avg)
        away_expected == away_expected_of(home_team_avg, away_team_avg,
                                          home_allowed_avg, away_allowed_avg)
        home_probs == pmf_list(home_expected)
        away_probs == pmf_list(away_expected)
        wins == home_loop(home_probs, away_probs, 0, game_max_runs)
        total_runs_probs ==
            [total \in 0..(game_max_runs * 2) |->
                total_loop(home_probs, away_probs, total, 0,
                           total_loop_stop(total) - 1)]
    IN  [home_expected |-> home_expected,
         away_expected |-> away_expected,
         home_probs |-> home_probs,
         away_probs |-> away_probs,
         home_win_prob |-> wins.home_win_prob,
         away_win_prob |-> wins.away_win_prob,
         tie_prob |-> wins.tie_prob,
         total_runs_probs |-> total_runs_probs]

\* the dictionary of the return statement
game_return(locals) ==
    Returned([home_win_prob |-> locals.home_win_prob,
              away_win_prob |-> locals.away_win_prob,
              tie_prob |-> locals.tie_prob,
              home_expected_runs |-> locals.home_expected,
              away_expected_runs |-> locals.away_expected,
              total_expected_runs |->
                  <<locals.home_expected[1] + locals.away_expected[1],
                    RateDen>>,
              total_runs_probs |-> locals.total_runs_probs])

calculate_game_probabilities(home_team_avg, away_team_avg, home_allowed_avg, away_allowed_avg) ==
    game_return(game_locals(home_team_avg, away_team_avg, home_allowed_avg,
                            away_allowed_avg))

\* the two run vectors among the locals of a call
game_vectors(locals) ==
    [home_probs |-> locals.home_probs, away_probs |-> locals.away_probs]

\* a call that builds no run vectors
NoFrame == [home_probs |-> <<>>, away_probs |-> <<>>]

---------------------------------------------------------------------------
(* api_key_manager.py: APIKeyManager, the global key_manager that the      *)
(* threads of the program share.  A key value is a string; Python's None   *)
(* is the value None below.  What the process environment and the web app  *)
(* answer is an input of the step that asks them.  A method is a sequence  *)
(* of steps, one for each statement that reads or writes the manager, and  *)
(* the callers' steps interleave: nothing in the class is locked.          *)

None == "<None>"

\* Python truth of an optional string: None and '' are false
Truthy(value) == value # None /\ value # ""

\* the threads that call the shared objects
Callers == {"A", "B"}

\* a caller outside the manager's methods.  Inside get_key it holds the key
\* asked for, what os.getenv answered and whether the manager had obtained
\* the key from the web app when the call began; inside
\* setup_from_config_file, the token still to be assigned.
IdleCaller ==
    [pc |-> "idle", key_name |-> "", env_value |-> None, later |-> FALSE,
     access_token |-> None]

\* no method has returned in the last step
NoKeyCall == [method |-> "none"]

\* key_manager = APIKeyManager(): no url, no token, nothing cached.  Beside
\* the three attributes: where each caller stands, the method call that
\* returned in the last step with what it did, and the keys the manager
\* has obtained from the web app so far.
NewKeyManager ==
    [web_app_url |-> None,
     access_token |-> None,
     cached_keys |-> <<>>,
     callers |-> [c \in Callers |-> IdleCaller],
     call |-> NoKeyCall,
     obtained |-> {}]

\* d[k] = v on a dictionary d
SetItem(d, k, v) ==
    [x \in DOMAIN d \cup {k} |-> IF x = k THEN v ELSE d[x]]

\* the test `not self.web_app_url or not self.access_token` reads the url
\* and, when there is one, the token
has_url(self) == Truthy(self.web_app_url)

has_token(self) == Truthy(self.access_token)

\* what get_key_from_web_app returns once requests.get has answered: None
\* after an exception or a body with 'error', data.get('value', '')
\* otherwise
web_app_value_of(response) ==
    IF response.kind \in {"exception", "error"} THEN None
    ELSE IF response.kind = "value" THEN response.value
    ELSE ""

\* the web app's value returned but not stored
store_key_not_caching(cached_keys, key_name, web_app_value) == cached_keys

\* self.cached_keys[key_name] = web_app_value
store_key(cached_keys, key_name, web_app_value) ==
    SetItem(cached_keys, key_name, web_app_value)

\* what get_key returns: the value, the return statement that yields it
\* and whether requests.get was called; the rest is what the call met,
\* first of all whether it found the key in cached_keys
KeyReturn(c, held, source, value, default, response, contacted) ==
    [method |-> "get_key", caller |-> c, key_name |-> held.key_name,
     found |-> held.pc = "read_cache",
     later |-> held.later, env_value |-> held.env_value,
     default |-> default, response |-> response, source |-> source,
     value |-> value, contacted |-> contacted]

\* no request was made
NoResponse == [kind |-> "none", value |-> None]

---------------------------------------------------------------------------
(* error_handler.py: MLBErrorHandler.  An exception is a record of its     *)
(* type and its message, with the status code its message holds ("" when  *)
(* it holds none); the clock datetime.now() counts whole hours.  An error  *)
(* key f"{context}_{type(error).__name__}" is the pair <<context, type>>.  *)

\* the classes (IOError, OSError, FileNotFoundError); IOError is OSError
OSErrorTypes == {"OSError", "FileNotFoundError"}

\* the classes (MemoryError, SystemError)
SystemErrorTypes == {"MemoryError", "SystemError"}

\* isinstance(error, classes): error.bases names the classes of
\* type(error).__mro__, the class of the error and all it derives from
IsInstance(error, classes) == error.bases \cap classes # {}

\* default_config["error_thresholds"]
DefaultThresholds ==
    [max_consecutive_failures |-> 5, circuit_breaker_threshold |-> 10]

SecondsPerHour == 3600

SecondsPerDay == 86400

\* (now - last_seen).seconds: the seconds within the day of the
\* difference, the days left out (86400 added under a negative difference)
TimedeltaSeconds(now, last_seen) ==
    ((now - last_seen) * SecondsPerHour) % SecondsPerDay

\* dict.get(key, default) on a dictionary with string keys
Get(d, key, default) == IF key \in DOMAIN d THEN d[key] ELSE default

\* sum(info["count"] for info in self.error_counts.values())
RECURSIVE SumCounts(_, _)
SumCounts(error_counts, keys) ==
    IF keys = {} THEN 0
    ELSE LET key == CHOOSE k \in keys : TRUE
         IN  error_counts[key].count + SumCounts(error_counts, keys \ {key})

\* MLBErrorHandler(config_file) at the time now, thresholds being
\* config["error_thresholds"]
NewErrorHandler(thresholds, now) ==
    [config |-> thresholds,
     error_counts |-> <<>>,
     last_errors |-> <<>>,
     system_status |-> [status |-> "healthy", last_check |-> now]]

\* _is_critical_error reads self.error_counts[error_key]: a KeyError when
\* the key is not there
is_critical_raises(self, error_key) ==
    error_key \notin DOMAIN self.error_counts

\* _is_critical_error, after the count of error_key was raised
is_critical_error(self, error, error_key) ==
    \/ self.error_counts[error_key].count
           > self.config.max_consecutive_failures
    \/ error.code \in {"401", "403"}
    \/ error.code \in {"503", "502"}
    \/ IsInstance(error, OSErrorTypes)
    \/ IsInstance(error, SystemErrorTypes)

\* _handle_critical_error: no notification is configured by default; the
\* status becomes "critical"
handle_critical_error(self, now) ==
    [self EXCEPT
        !.system_status =
            SetItem(SetItem(@, "status", "critical"), "last_critical", now)]

\* _update_system_status
update_system_status(self, now) ==
    LET total_errors == SumCounts(self.error_counts,
                                  DOMAIN self.error_counts)
        recent_errors ==
            Cardinality({k \in DOMAIN self.error_counts :
                TimedeltaSeconds(now, self.error_counts[k].last_seen)
                    < SecondsPerHour})
        status ==
            IF recent_errors > self.config.circuit_breaker_threshold
            THEN "degraded"
            ELSE IF recent_errors = 0 THEN "healthy"
            ELSE self.system_status.status
    IN  [self EXCEPT
            !.system_status =
                SetItem(SetItem(SetItem(SetItem(@,
                    "status", status),
                    "last_check", now),
                    "total_errors", total_errors),
                    "recent_errors", recent_errors)]

\* error_key = f"{context}_{type(error).__name__}"
error_key_of(error, context) == <<context, error.type>>

\* the first part of handle_error: the error is counted under its key
track_error(self, error, context, now) ==
    LET error_key == error_key_of(error, context)
        seen == IF error_key \in DOMAIN self.error_counts
                THEN self.error_counts
                ELSE SetItem(self.error_counts, error_key,
                             [count |-> 0, first_seen |-> now,
                              last_seen |-> now])
    IN  [self EXCEPT
            !.error_counts = [seen EXCEPT ![error_key].count = @ + 1,
                                          ![error_key].last_seen = now],
            !.last_errors = SetItem(@, error_key, error.message)]

\* whether handle_error classifies the error as critical
classified_critical(self, error, context, now) ==
    is_critical_error(track_error(self, error, context, now), error,
                      error_key_of(error, context))

\* handle_error(error, context, operation) at the time now: the handler
\* afterwards
handle_error(self, error, context, now) ==
    LET counted == track_error(self, error, context, now)
        alerted == IF classified_critical(self, error, context, now)
                   THEN handle_critical_error(counted, now)
                   ELSE counted
    IN  update_system_status(alerted, now)

\* get_system_health()
get_system_health(self) ==
    [status |-> self.system_status.status,
     last_check |-> self.system_status.last_check,
     total_errors |-> Get(self.system_status, "total_errors", 0),
     recent_errors |-> Get(self.system_status, "recent_errors", 0),
     error_summary |->
         [key \in DOMAIN self.error_counts |->
             [count |-> self.error_counts[key].count,
              last_seen |-> self.error_counts[key].last_seen,
              last_error |-> Get(self.last_errors, key, "")]]]

\* reset_error_counts()
reset_error_counts(self) ==
    [self EXCEPT
        !.error_counts = <<>>,
        !.last_errors = <<>>,
        !.system_status = SetItem(@, "status", "healthy")]

\* a caller outside handle_error; inside, it holds the arguments
IdleHandling ==
    [pc |-> "idle",
     error |-> [type |-> "", bases |-> {}, message |-> "", code |-> ""],
     context |-> ""]

\* no call on the handler has returned in the last step; callers is where
\* each thread stands in handle_error
NotHandled(callers) == [method |-> "none", callers |-> callers]

---------------------------------------------------------------------------
(* error_handler.py: retry_on_failure.  A call of the wrapper is a loop    *)
(* over attempts; what the wrapped function does at an invocation, return  *)
(* or raise, is outside the wrapper.  Times are whole seconds.             *)

\* backoff ** attempt (1 at attempt 0, also for backoff 0)
RECURSIVE Power(_, _)
Power(base, exponent) ==
    IF exponent = 0 THEN 1 ELSE base * Power(base, exponent - 1)

\* the wait written delay * backoff * attempt
wait_time_linear(delay, backoff, attempt) == delay * backoff * attempt

\* wait_time = delay * (backoff ** attempt)
wait_time_of(delay, backoff, attempt) == delay * Power(backoff, attempt)

\* range(max_retries + 1): the number of passes of the loop
attempts_of(max_retries) == max_retries + 1

\* the final attempt recognised one pass early
is_final_attempt_early(attempt, max_retries) == attempt = max_retries - 1

\* if attempt == max_retries
is_final_attempt(attempt, max_retries) == attempt = max_retries

\* no call of a wrapped function is under way
NoRetry ==
    [pc |-> "idle", max_retries |-> 0, delay |-> 0, backoff |-> 0,
     attempt |-> 0, invocations |-> 0, raised |-> <<>>, waits |-> <<>>,
     handle_error_calls |-> 0, error_handler |-> <<>>,
     outcome |-> [kind |-> "none"]]

---------------------------------------------------------------------------
(* automation_scheduler.py: MLBAutomationScheduler.  jobs is the job list  *)
(* of the schedule module, one entry per registration, named by the method *)
(* it runs; polling lists the threads start_scheduler has created, in      *)
(* order, each at its place in run_scheduler; scheduler_thread is the      *)
(* index of the thread the attribute refers to, 0 for None; caller is the  *)
(* place of the thread that calls the scheduler's methods, and             *)
(* direct_setups counts its calls of setup_schedules from outside          *)
(* start_scheduler.                                                        *)

\* the registrations of setup_schedules, in order
ScheduledJobs ==
    <<"morning_update", "pre_game_update", "post_game_update",
      "live_updates", "weekly_historical_update">>

\* setup_schedules(): five registrations appended to the job list
setup_schedules(jobs) == jobs \o ScheduledJobs

\* a thread just created runs run_scheduler from its first line; looped
\* notes whether it found is_running true since the latest start
NewPollingThread == [pc |-> "while", looped |-> FALSE]

\* MLBAutomationScheduler(): not running, no thread, nothing registered
NewScheduler ==
    [is_running |-> FALSE,
     scheduler_thread |-> 0,
     polling |-> <<>>,
     jobs |-> <<>>,
     caller |-> "ready",
     direct_setups |-> 0]

---------------------------------------------------------------------------
(* ev_poisson.py: update_ev_poisson.  A cell of the "Historical Data"      *)
(* sheet is a record of its kind and, for a number or a numeric string,    *)
(* its value: a number, a numeric string ("7"), the empty string, or a     *)
(* string that is no number ("N/A").  Scores are whole runs.               *)

\* Python truth of a cell: 0 and '' are false
CellTruthy(cell) ==
    \/ cell.kind = "number" /\ cell.number # 0
    \/ cell.kind \in {"numeric_text", "text"}

\* whether float(cell) raises ValueError or TypeError
FloatRaises(cell) == cell.kind = "text"

\* float(cell) of a number or a numeric string
FloatOf(cell) == cell.number

\* float(score) if score else 0, as <<raised, value>>
score_of(cell) ==
    IF ~CellTruthy(cell) THEN [raised |-> FALSE, value |-> 0]
    ELSE IF FloatRaises(cell) THEN [raised |-> TRUE, value |-> 0]
    ELSE [raised |-> FALSE, value |-> FloatOf(cell)]

\* team_stats[team]['runs_scored'].append(scored) and
\* team_stats[team]['runs_allowed'].append(allowed), each only if wanted
AppendGame(team_stats, team, scored, allowed) ==
    [team_stats EXCEPT
        ![team].runs_scored = Append(@, scored),
        ![team].runs_allowed = Append(@, allowed)]

\* if team not in team_stats: team_stats[team] = {...empty lists...}
EnsureTeam(team_stats, team) ==
    IF team \in DOMAIN team_stats THEN team_stats
    ELSE SetItem(team_stats, team,
                 [runs_scored |-> <<>>, runs_allowed |-> <<>>])

\* the loop body with each score converted right before its first append:
\* a bad away score is met after the home score is already appended
aggregate_row_converting_late(team_stats, row) ==
    IF ~(Truthy(row.home_team) /\ Truthy(row.away_team))
    THEN team_stats
    ELSE LET known == EnsureTeam(EnsureTeam(team_stats, row.home_team),
                                 row.away_team)
             home_score == score_of(row.home_score)
             away_score == score_of(row.away_score)
             first == [known EXCEPT ![row.home_team].runs_scored =
                                        Append(@, home_score.value)]
         IN  IF home_score.raised THEN known
             ELSE IF away_score.raised THEN first
             ELSE AppendGame(
                      AppendGame(known, row.home_team, home_score.value,
                                 away_score.value),
                      row.away_team, away_score.value, home_score.value)

\* the body of `for _, row in df.iterrows()`: team_stats after the row
aggregate_row(team_stats, row) ==
    IF ~(Truthy(row.home_team) /\ Truthy(row.away_team))
    THEN team_stats
    ELSE LET known == EnsureTeam(EnsureTeam(team_stats, row.home_team),
                                 row.away_team)
             home_score == score_of(row.home_score)
             away_score == score_of(row.away_score)
         IN  IF home_score.raised \/ away_score.raised
             THEN known
             ELSE AppendGame(
                      AppendGame(known, row.home_team, home_score.value,
                                 away_score.value),
                      row.away_team, away_score.value, home_score.value)

\* the sum of a list of numbers
RECURSIVE SumSeq(_)
SumSeq(list) ==
    IF list = <<>> THEN 0 ELSE Head(list) + SumSeq(Tail(list))

\* the exponent e of a positive num / den: 2^e <= num / den < 2^(e + 1)
RECURSIVE FloorLog2(_, _)
FloorLog2(num, den) ==
    IF num < den THEN FloorLog2(2 * num, den) - 1
    ELSE IF num >= 2 * den THEN FloorLog2(num, 2 * den) + 1
    ELSE 0

\* 2^k mod n, by repeated squaring
RECURSIVE PowMod2(_, _)
PowMod2(k, n) ==
    IF k = 0 THEN 1 % n
    ELSE LET half == PowMod2(k \div 2, n)
             square == (half * half) % n
         IN  IF k % 2 = 1 THEN (2 * square) % n ELSE square

\* the bits of the significand of a double after its leading one
DoubleBits == 52

\* round(mean, 2) of the np.float64 mean = num / den, in hundredths:
\* numpy multiplies the double by 100, rounds the product to the nearest
\* whole number, a tie going to the even one, and divides by 100.  When
\* 100 * num / den is no tie the double errors are too small to matter.
\* When it is a tie m + 1/2, the double nearest to num / den is off by
\* delta / (den * 2^k) with k = DoubleBits - exponent, and the product is
\* rounded to a double: it is the tie itself when 200 * |delta| is at most
\* den * ratio, ratio being the spacing of the doubles at the tie over the
\* spacing at the mean, and the next double on the side of delta otherwise.
Round2(num, den) ==
    LET floor == (num * 100) \div den
        twice == 2 * ((num * 100) % den)
    IN  IF twice # den
        THEN IF twice > den THEN floor + 1 ELSE floor
        ELSE LET exponent == FloorLog2(num, den)
                 k == DoubleBits - exponent
                 rem == ((num % den) * PowMod2(k, den)) % den
                 delta == IF 2 * rem > den THEN den - rem ELSE -rem
                 ratio == 2^(FloorLog2(2 * floor + 1, 2) - exponent)
             IN  IF 200 * Abs(delta) > den * ratio
                 THEN IF delta > 0 THEN floor + 1 ELSE floor
                 ELSE IF floor % 2 = 1 THEN floor + 1 ELSE floor

\* team_averages: the teams with both lists non-empty
averaged_teams(team_stats) ==
    {team \in DOMAIN team_stats :
        /\ team_stats[team].runs_scored # <<>>
        /\ team_stats[team].runs_allowed # <<>>}

\* the rows of ev_data under the header, by team: the two rounded means
\* (in hundredths) and games_played
ev_rows(team_stats) ==
    [team \in averaged_teams(team_stats) |->
        [avg_runs_scored |->
             Round2(SumSeq(team_stats[team].runs_scored),
                    Len(team_stats[team].runs_scored)),
         avg_runs_allowed |->
             Round2(SumSeq(team_stats[team].runs_allowed),
                    Len(team_stats[team].runs_allowed)),
         games_played |-> Len(team_stats[team].runs_scored)]]

\* no update under way; row is the last row read and before the team_stats
\* it met
NoAggregation ==
    [pc |-> "idle", rows |-> 0, team_stats |-> <<>>, before |-> <<>>,
     row |-> [home_team |-> "", away_team |-> "",
              home_score |-> [kind |-> "empty", number |-> 0],
              away_score |-> [kind |-> "empty", number |-> 0]],
     ev_rows |-> <<>>]

---------------------------------------------------------------------------
(* modules/analytics.py: run_ev_poisson_analysis.  A park factor is a      *)
(* number of tenths between 0 and 2, so that both rates are whole          *)
(* hundredths of a run and not negative, or a number so far below 0 that   *)
(* the win probability overflows.  A game is a record of its kind          *)
(* ("game", or "no_teams" for a dictionary without the key 'teams') and    *)
(* its two team names; an entry of parks is a record of its kind           *)
(* ("number", "missing" for a dictionary without 'park_factor', "text"     *)
(* for a value float() rejects) and its tenths.                            *)

\* lam_home = 4.5 and lam_away = 4.2, in tenths
BaseLamHome == 45
BaseLamAway == 42

\* park_factor = 1.0, in tenths
DefaultParkFactor == 10

\* k = 5, the expected runs
ExpectedRunsK == 5

\* the denominator of a rate: tenths times tenths
LamDen == 100

\* round(x, places) of a fixed-point value x >= 0, in units of 10^-places
\* (places <= 4), an exact half going to the even unit:
\* x * 10^places = whole * Scale + fraction
RoundFixed(x, places) ==
    LET unit == 10^places
        low == (x % Limb) * unit
        high == (x \div Limb) * unit + low \div Limb
        whole == high \div Limb
        fraction == (high % Limb) * Limb + (low % Limb)
    IN  IF 2 * fraction > Scale \/ (2 * fraction = Scale /\ whole % 2 = 1)
        THEN whole + 1 ELSE whole

\* math.exp(x) raises OverflowError for the doubles x above
\* 0x1.62e42fefa39efp+9 = 709.782712893384, the largest whose exponential
\* is a double.  The doubles there are 2^-43 apart, and a number halfway
\* between that double and the next is rounded to the next, whose
\* significand is even: math.exp overflows from
\*   ExpOverflowWhole + (ExpOverflowHigh * 2^HalfBits + ExpOverflowLow)
\*                          / 2^(2 * HalfBits)
\* on, the halfway point written in binary with 2 * HalfBits places
ExpOverflowWhole == 709
ExpOverflowHigh == 3282935
ExpOverflowLow == 3437535
HalfBits == 22

\* the outcome of a call that raises OverflowError, which is no probability
OverflowError == -2

\* the next bits binary places of remainder / den (0 <= remainder < den),
\* after the places in places, and the remainder they leave
RECURSIVE FractionBits(_, _, _, _)
FractionBits(remainder, den, bits, places) ==
    IF bits = 0 THEN <<places, remainder>>
    ELSE IF 2 * remainder >= den
    THEN FractionBits(2 * remainder - den, den, bits - 1, 2 * places + 1)
    ELSE FractionBits(2 * remainder, den, bits - 1, 2 * places)

\* whether math.exp(-run_diff) raises OverflowError: -run_diff, rounded to
\* the nearest double, is above the largest double math.exp accepts
exp_overflows(run_diff) ==
    LET whole == (-run_diff[1]) \div run_diff[2]
        high == FractionBits((-run_diff[1]) % run_diff[2], run_diff[2],
                             HalfBits, 0)
        low == FractionBits(high[2], run_diff[2], HalfBits, 0)
    IN  \/ whole > ExpOverflowWhole
        \/ /\ whole = ExpOverflowWhole
           /\ \/ high[1] > ExpOverflowHigh
              \/ high[1] = ExpOverflowHigh /\ low[1] >= ExpOverflowLow

\* calculate_win_probability: 1 / (1 + math.exp(-run_diff)) in fixed
\* point, numerator and denominator halved to stay below 2^31, and for
\* run_diff < 0 with both multiplied by exp(run_diff); OverflowError when
\* math.exp(-run_diff) overflows
calculate_win_probability(home_runs, away_runs) ==
    LET run_diff == RSub(home_runs, away_runs)
        e == ExpNeg(<<Abs(run_diff[1]), run_diff[2]>>)
        half == (Scale + e) \div 2
    IN  IF exp_overflows(run_diff) THEN OverflowError
        ELSE IF run_diff[1] >= 0 THEN FDiv(Scale \div 2, half)
        ELSE FDiv(e \div 2, half)

\* lam_home and lam_away of a park factor in tenths
lam_home_of(park_factor) == <<BaseLamHome * park_factor, LamDen>>
lam_away_of(park_factor) ==
    <<BaseLamAway * (2 * DefaultParkFactor - park_factor), LamDen>>

\* whether calculate_win_probability(lam_home, lam_away) raises
WinProbabilityRaises(park_factor) ==
    calculate_win_probability(lam_home_of(park_factor),
                              lam_away_of(park_factor)) = OverflowError

\* whether game['teams']['home']['name'] raises KeyError
TeamsRaise(game) == game.kind = "no_teams"

\* the entry of parks looked at in the pass for the game with index i
\* (counted from 0), when there is one
HasPark(parks, i) == i < Len(parks)

\* whether float(parks[i].get('park_factor', 1.0)) raises ValueError
ParkRaises(parks, i) == HasPark(parks, i) /\ parks[i + 1].kind = "text"

\* park_factor of the pass with index i that does not raise, in tenths
park_factor_of(parks, i) ==
    IF HasPark(parks, i)
    THEN IF parks[i + 1].kind = "missing" THEN DefaultParkFactor
         ELSE parks[i + 1].tenths
    ELSE DefaultParkFactor

\* the locals of a pass of the loop that reaches the append, and its row
analyse_game(game, park_factor) ==
    LET lam_home == lam_home_of(park_factor)
        lam_away == lam_away_of(park_factor)
        p_home == poisson_prob(lam_home, ExpectedRunsK)
        p_away == poisson_prob(lam_away, ExpectedRunsK)
        home_win_prob == calculate_win_probability(lam_home, lam_away)
        away_win_prob == Scale - home_win_prob
        \* abs(home_win_prob - 0.5); the row holds it times 100, rounded
        \* to hundredths
        statistical_edge == Abs(home_win_prob - Scale \div 2)
    IN  [park_factor |-> park_factor,
         home_win_prob |-> home_win_prob,
         away_win_prob |-> away_win_prob,
         row |-> [home_team |-> game.home, away_team |-> game.away,
                  lam_home |-> lam_home[1], lam_away |-> lam_away[1],
                  k |-> ExpectedRunsK,
                  p_home |-> RoundFixed(p_home, 4),
                  p_away |-> RoundFixed(p_away, 4),
                  home_win_prob |-> RoundFixed(home_win_prob, 4),
                  away_win_prob |-> RoundFixed(away_win_prob, 4),
                  statistical_edge |-> RoundFixed(statistical_edge, 4),
                  label |-> "Pure Analytics"]]

\* the pass that looks up the park by the number of rows emitted so far
\* in place of the index of the game
process_game_park_by_row(self) ==
    LET i == self.i
        game == self.games[i + 1]
        at == Len(self.game_analyzer)
    IN  IF \/ TeamsRaise(game)
           \/ ParkRaises(self.parks, at)
           \/ WinProbabilityRaises(park_factor_of(self.parks, at))
        THEN [self EXCEPT !.i = i + 1]
        ELSE LET done == analyse_game(game, park_factor_of(self.parks, at))
             IN  [self EXCEPT
                     !.i = i + 1,
                     !.game_analyzer = Append(@, done.row),
                     !.emitted = Append(@, [game |-> i,
                         park_factor |-> done.park_factor,
                         home_win_prob |-> done.home_win_prob,
                         away_win_prob |-> done.away_win_prob])]

\* one pass of `for i, game in enumerate(games)`: a pass that raises is
\* skipped; emitted keeps, for every row, the index of its game and the
\* unrounded locals
process_game(self) ==
    LET i == self.i
        game == self.games[i + 1]
    IN  IF \/ TeamsRaise(game)
           \/ ParkRaises(self.parks, i)
           \/ WinProbabilityRaises(park_factor_of(self.parks, i))
        THEN [self EXCEPT !.i = i + 1]
        ELSE LET done == analyse_game(game, park_factor_of(self.parks, i))
             IN  [self EXCEPT
                     !.i = i + 1,
                     !.game_analyzer = Append(@, done.row),
                     !.emitted = Append(@, [game |-> i,
                         park_factor |-> done.park_factor,
                         home_win_prob |-> done.home_win_prob,
                         away_win_prob |-> done.away_win_prob])]

\* no analysis under way
NoAnalysis ==
    [pc |-> "idle", games |-> <<>>, parks |-> <<>>, i |-> 0,
     game_analyzer |-> <<>>, emitted |-> <<>>]

---------------------------------------------------------------------------
(* The caller: it draws the arguments of a call, the call runs to its       *)
(* outcome, and the caller consumes the outcome before the next call.      *)

Avgs == -NegAvg..MaxAvg

MaxRunsArgs == -NegRuns..MaxRunsArg

Probabilities == {<<pn, ProbDen>> : pn \in -ProbSlack..(ProbDen + ProbSlack)}

OddsValues == {k * OddsStep : k \in -MaxOddsSteps..MaxOddsSteps}

BetAmounts == {k * StakeStep : k \in -1..MaxStakeSteps}

Rates == {<<n, 2>> : n \in 0..(2 * MaxAvg)}

\* the allowed averages a game call is drawn with: the two ends and zero
AllowedAvgs == {-NegAvg, 0, MaxAvg}

\* the threads of a concurrent caller
Threads == {"t1", "t2"}

\* the locals of the three functions before a call has assigned them
NoLocals ==
    [expected_runs |-> <<0, RateDen>>, probabilities |-> <<>>, runs |-> 0,
     payout |-> <<0, 1>>, ev |-> <<0, 1>>,
     home_expected |-> <<0, RateDen>>, away_expected |-> <<0, RateDen>>,
     home_probs |-> <<>>, away_probs |-> <<>>,
     wins |-> NoWins, home_runs |-> 0,
     total |-> 0, total_runs_probs |-> <<>>]

\* a thread that runs no call
IdleThread ==
    [pc |-> "idle", op |-> "none", args |-> [given |-> 0],
     locals |-> NoLocals,
     result |-> [kind |-> "none", value |-> "none", error |-> "none"]]

\* no earlier call is remembered
NoCall ==
    [op |-> "none", args |-> [given |-> 0],
     outcome |-> [kind |-> "none", value |-> "none", error |-> "none"],
     between |-> 0]

\* one more call has been made since the remembered one (counted up to
\* MaxBetween)
Between(call) ==
    IF call.op = "none"
    THEN call
    ELSE [call EXCEPT !.between = Min(@ + 1, MaxBetween)]

Init ==
    /\ op = "none"
    /\ args = [given |-> 0]
    /\ outcome = [kind |-> "none", value |-> "none", error |-> "none"]
    /\ branch = "none"
    /\ frame = NoFrame
    /\ earlier = NoCall
    /\ threads = [t \in Threads |-> IdleThread]
    /\ key_manager = NewKeyManager
    /\ error_handler = NewErrorHandler(DefaultThresholds, 0)
    /\ clock = 0
    /\ handled = NotHandled([c \in Callers |-> IdleHandling])
    /\ retry = NoRetry
    /\ scheduler = NewScheduler
    /\ aggregation = NoAggregation
    /\ analysis = NoAnalysis

\* calculate_poisson_probabilities(team_avg, opponent_avg, max_runs)
CallPoissonProbabilities ==
    /\ op = "none"
    /\ \E team_avg \in Avgs, opponent_avg \in Avgs, max_runs \in MaxRunsArgs :
        /\ op' = "calculate_poisson_probabilities"
        /\ args' = [given |-> 3, team_avg |-> team_avg,
                    opponent_avg |-> opponent_avg, max_runs |-> max_runs]
        /\ outcome' = calculate_poisson_probabilities(team_avg, opponent_avg,
                                                      max_runs)
        /\ branch' = "none"
        /\ frame' = NoFrame
        /\ earlier' = Between(earlier)
        /\ UNCHANGED <<threads, services>>

\* calculate_poisson_probabilities(team_avg, opponent_avg): max_runs = 15
CallPoissonProbabilitiesDefault ==
    /\ op = "none"
    /\ \E team_avg \in Avgs, opponent_avg \in Avgs :
        /\ op' = "calculate_poisson_probabilities"
        /\ args' = [given |-> 2, team_avg |-> team_avg,
                    opponent_avg |-> opponent_avg,
                    max_runs |-> DefaultMaxRuns]
        /\ outcome' = calculate_poisson_probabilities(team_avg, opponent_avg,
                                                      DefaultMaxRuns)
        /\ branch' = "none"
        /\ frame' = NoFrame
        /\ earlier' = Between(earlier)
        /\ UNCHANGED <<threads, services>>

\* calculate_expected_value(probability, odds, bet_amount)
CallExpectedValue ==
    /\ op = "none"
    /\ \E probability \in Probabilities, odds \in OddsValues,
       bet_amount \in BetAmounts :
        /\ op' = "calculate_expected_value"
        /\ args' = [given |-> 3, probability |-> probability, odds |-> odds,
                    bet_amount |-> bet_amount]
        /\ outcome' = calculate_expected_value(probability, odds, bet_amount)
        /\ branch' = odds_branch(odds)
        /\ frame' = NoFrame
        /\ earlier' = Between(earlier)
        /\ UNCHANGED <<threads, services>>

\* calculate_expected_value(probability, odds): bet_amount = 100
CallExpectedValueDefault ==
    /\ op = "none"
    /\ \E probability \in Probabilities, odds \in OddsValues :
        /\ op' = "calculate_expected_value"
        /\ args' = [given |-> 2, probability |-> probability, odds |-> odds,
                    bet_amount |-> DefaultBetAmount]
        /\ outcome' = calculate_expected_value(probability, odds,
                                               DefaultBetAmount)
        /\ branch' = odds_branch(odds)
        /\ frame' = NoFrame
        /\ earlier' = Between(earlier)
        /\ UNCHANGED <<threads, services>>

\* poisson_prob(lam, k)
CallPoissonProb ==
    /\ op = "none"
    /\ \E lam \in Rates, k \in 0..MaxRunsArg :
        /\ op' = "poisson_prob"
        /\ args' = [given |-> 2, lam |-> lam, k |-> k]
        /\ outcome' = Returned(poisson_prob(lam, k))
        /\ branch' = "none"
        /\ frame' = NoFrame
        /\ earlier' = Between(earlier)
        /\ UNCHANGED <<threads, services>>

\* calculate_game_probabilities(home_team_avg, away_team_avg,
\*                              home_allowed_avg, away_allowed_avg)
CallGameProbabilities ==
    /\ op = "none"
    /\ \E home_team_avg \in Avgs, away_team_avg \in Avgs,
          home_allowed_avg \in AllowedAvgs, away_allowed_avg \in AllowedAvgs :
        /\ op' = "calculate_game_probabilities"
        /\ args' = [given |-> 4, home_team_avg |-> home_team_avg,
                    away_team_avg |-> away_team_avg,
                    home_allowed_avg |-> home_allowed_avg,
                    away_allowed_avg |-> away_allowed_avg]
        /\ LET locals == game_locals(home_team_avg, away_team_avg,
                                     home_allowed_avg, away_allowed_avg)
           IN  /\ outcome' = game_return(locals)
               /\ frame' = game_vectors(locals)
        /\ branch' = "none"
        /\ earlier' = Between(earlier)
        /\ UNCHANGED <<threads, services>>

\* calculate_game_probabilities(home_team_avg, away_team_avg,
\*                              home_allowed_avg, away_allowed_avg, max_runs):
\* the function has four parameters, so the call does not bind and raises
\* before the body runs
CallGameProbabilitiesMaxRuns ==
    /\ op = "none"
    /\ \E home_team_avg \in Avgs, away_team_avg \in Avgs,
          home_allowed_avg \in AllowedAvgs, away_allowed_avg \in AllowedAvgs,
          max_runs \in MaxRunsArgs :
        /\ op' = "calculate_game_probabilities"
        /\ args' = [given |-> 5, home_team_avg |-> home_team_avg,
                    away_team_avg |-> away_team_avg,
                    home_allowed_avg |-> home_allowed_avg,
                    away_allowed_avg |-> away_allowed_avg,
                    max_runs |-> max_runs]
        /\ outcome' = IF 5 > GameParameters
                      THEN Raised("TypeError")
                      ELSE calculate_game_probabilities(home_team_avg,
                               away_team_avg, home_allowed_avg,
                               away_allowed_avg)
        /\ branch' = "none"
        /\ frame' = NoFrame
        /\ earlier' = Between(earlier)
        /\ UNCHANGED <<threads, services>>

\* the caller is done with the outcome; nothing of the call is kept
Consume ==
    /\ op # "none"
    /\ op' = "none"
    /\ args' = [given |-> 0]
    /\ outcome' = [kind |-> "none", value |-> "none", error |-> "none"]
    /\ branch' = "none"
    /\ frame' = NoFrame
    /\ earlier' = earlier
    /\ UNCHANGED <<threads, services>>

Next ==
    \/ CallPoissonProbabilities
    \/ CallPoissonProbabilitiesDefault
    \/ CallExpectedValue
    \/ CallExpectedValueDefault
    \/ CallPoissonProb
    \/ CallGameProbabilities
    \/ CallGameProbabilitiesMaxRuns
    \/ Consume

Spec == Init /\ [][Next]_vars

---------------------------------------------------------------------------
(* Concurrent callers: each thread runs one call at a time, statement by   *)
(* statement and loop pass by loop pass, on its own parameters and locals; *)
(* the steps of the threads interleave in any order.                       *)

\* the variables of the sequential caller
sequential == <<op, args, outcome, branch, frame, earlier>>

SessionAvgs == {0, MaxAvg}

\* the calls a thread draws
ConcurrentCalls ==
    {[op |-> "calculate_expected_value",
      args |-> [given |-> 3, probability |-> <<ProbDen - 1, ProbDen>>,
                odds |-> o, bet_amount |-> StakeStep]] :
         o \in {-OddsStep, 0, OddsStep}}
    \cup {[op |-> "calculate_poisson_probabilities",
           args |-> [given |-> 3, team_avg |-> a, opponent_avg |-> 0,
                     max_runs |-> MaxRunsArg]] : a \in {-NegAvg, MaxAvg}}
    \cup {[op |-> "calculate_game_probabilities",
           args |-> [given |-> 4, home_team_avg |-> a,
                     away_team_avg |-> MaxAvg, home_allowed_avg |-> 0,
                     away_allowed_avg |-> MaxAvg]] : a \in SessionAvgs}

\* the first statement of each function
EntryPoint(operation) ==
    CASE operation = "calculate_expected_value" -> "ev_if"
      [] operation = "calculate_poisson_probabilities" -> "pp_blend"
      [] operation = "calculate_game_probabilities" -> "gp_blend"

\* the mapping f with the key k set to v
Store(f, k, v) == [x \in DOMAIN f \cup {k} |-> IF x = k THEN v ELSE f[x]]

\* every thread storing into the dictionary of the first thread, as if
\* probabilities were a module-level variable
probabilities_shared(t) == threads["t1"].locals.probabilities

\* the dictionary probabilities[runs] = ... stores into: a local of the
\* thread's call
probabilities_of(t) == threads[t].locals.probabilities

\* every thread using the accumulators of the first thread, as if the
\* three were module-level variables
accumulated_wins_shared(t) == threads["t1"].locals.wins

\* the accumulators home_win_prob, away_win_prob and tie_prob of a thread's
\* call: locals of the call
accumulated_wins(t) == threads[t].locals.wins

\* an idle thread calls one of the functions
Begin(t) ==
    /\ threads[t].pc = "idle"
    /\ \E call \in ConcurrentCalls :
          threads' = [threads EXCEPT ![t] =
                          [pc |-> EntryPoint(call.op), op |-> call.op,
                           args |-> call.args, locals |-> NoLocals,
                           result |-> IdleThread.result]]
    /\ UNCHANGED <<sequential, services>>

\* calculate_expected_value: if odds > 0
EvTest(t) ==
    /\ threads[t].pc = "ev_if"
    /\ threads' = [threads EXCEPT ![t].pc =
                      IF odds_branch(threads[t].args.odds) = "positive"
                      THEN "ev_positive" ELSE "ev_negative"]
    /\ UNCHANGED <<sequential, services>>

\* payout = bet_amount * (odds / 100)
EvPositivePayout(t) ==
    /\ threads[t].pc = "ev_positive"
    /\ threads' = [threads EXCEPT
                      ![t].locals.payout =
                          positive_payout(threads[t].args.odds,
                                          threads[t].args.bet_amount),
                      ![t].pc = "ev_value"]
    /\ UNCHANGED <<sequential, services>>

\* payout = bet_amount * (100 / abs(odds)), which raises at odds 0
EvNegativePayout(t) ==
    /\ threads[t].pc = "ev_negative"
    /\ threads' =
          IF Abs(threads[t].args.odds) = 0
          THEN [threads EXCEPT ![t].result = Raised("ZeroDivisionError"),
                               ![t].pc = "done"]
          ELSE [threads EXCEPT
                   ![t].locals.payout =
                       negative_payout(threads[t].args.odds,
                                       threads[t].args.bet_amount),
                   ![t].pc = "ev_value"]
    /\ UNCHANGED <<sequential, services>>

\* ev = (probability * payout) - ((1 - probability) * bet_amount)
EvValue(t) ==
    /\ threads[t].pc = "ev_value"
    /\ threads' = [threads EXCEPT
                      ![t].locals.ev = ev_of(threads[t].args.probability,
                                             threads[t].locals.payout,
                                             threads[t].args.bet_amount),
                      ![t].pc = "ev_return"]
    /\ UNCHANGED <<sequential, services>>

\* return ev
EvReturn(t) ==
    /\ threads[t].pc = "ev_return"
    /\ threads' = [threads EXCEPT
                      ![t].result = Returned(threads[t].locals.ev),
                      ![t].pc = "done"]
    /\ UNCHANGED <<sequential, services>>

\* calculate_poisson_probabilities: expected_runs = (team_avg +
\* opponent_avg) / 2; probabilities = {}
PoissonBlend(t) ==
    /\ threads[t].pc = "pp_blend"
    /\ threads' = [threads EXCEPT
                      ![t].locals.expected_runs =
                          expected_runs_of(threads[t].args.team_avg,
                                           threads[t].args.opponent_avg),
                      ![t].locals.probabilities = <<>>,
                      ![t].locals.runs = 0,
                      ![t].pc = "pp_loop"]
    /\ UNCHANGED <<sequential, services>>

\* one pass of for runs in range(max_runs + 1), or the end of the loop
PoissonLoop(t) ==
    /\ threads[t].pc = "pp_loop"
    /\ threads' =
          IF threads[t].locals.runs > threads[t].args.max_runs
          THEN [threads EXCEPT ![t].pc = "pp_return"]
          ELSE [threads EXCEPT
                   ![t].locals.probabilities =
                       Store(probabilities_of(t), threads[t].locals.runs,
                             poisson_pmf(threads[t].locals.runs,
                                         threads[t].locals.expected_runs)),
                   ![t].locals.runs = @ + 1]
    /\ UNCHANGED <<sequential, services>>

\* return probabilities
PoissonReturn(t) ==
    /\ threads[t].pc = "pp_return"
    /\ threads' = [threads EXCEPT
                      ![t].result = Returned(threads[t].locals.probabilities),
                      ![t].pc = "done"]
    /\ UNCHANGED <<sequential, services>>

\* calculate_game_probabilities: home_expected = ...; away_expected = ...
GameBlend(t) ==
    /\ threads[t].pc = "gp_blend"
    /\ threads' = [threads EXCEPT
                      ![t].locals.home_expected =
                          home_expected_of(threads[t].args.home_team_avg,
                                           threads[t].args.away_team_avg,
                                           threads[t].args.home_allowed_avg,
                                           threads[t].args.away_allowed_avg),
                      ![t].locals.away_expected =
                          away_expected_of(threads[t].args.home_team_avg,
                                           threads[t].args.away_team_avg,
                                           threads[t].args.home_allowed_avg,
                                           threads[t].args.away_allowed_avg),
                      ![t].pc = "gp_home_probs"]
    /\ UNCHANGED <<sequential, services>>

\* home_probs = [poisson.pmf(i, home_expected) for i in range(max_runs + 1)]
GameHomeProbs(t) ==
    /\ threads[t].pc = "gp_home_probs"
    /\ threads' = [threads EXCEPT
                      ![t].locals.home_probs =
                          pmf_list(threads[t].locals.home_expected),
                      ![t].pc = "gp_away_probs"]
    /\ UNCHANGED <<sequential, services>>

\* away_probs = [poisson.pmf(i, away_expected) for i in range(max_runs + 1)]
\* and the three accumulators set to 0
GameAwayProbs(t) ==
    /\ threads[t].pc = "gp_away_probs"
    /\ threads' = [threads EXCEPT
                      ![t].locals.away_probs =
                          pmf_list(threads[t].locals.away_expected),
                      ![t].locals.wins = NoWins,
                      ![t].locals.home_runs = 0,
                      ![t].pc = "gp_wins"]
    /\ UNCHANGED <<sequential, services>>

\* one pass of for home_runs in range(max_runs + 1), the inner loop run
\* through, or the end of the loop
GameWins(t) ==
    /\ threads[t].pc = "gp_wins"
    /\ threads' =
          IF threads[t].locals.home_runs > game_max_runs
          THEN [threads EXCEPT ![t].locals.total = 0,
                               ![t].locals.total_runs_probs = <<>>,
                               ![t].pc = "gp_totals"]
          ELSE [threads EXCEPT
                   ![t].locals.wins =
                       AddWins(accumulated_wins(t),
                               away_loop(threads[t].locals.home_probs,
                                         threads[t].locals.away_probs,
                                         threads[t].locals.home_runs,
                                         0, game_max_runs)),
                   ![t].locals.home_runs = @ + 1]
    /\ UNCHANGED <<sequential, services>>

\* one pass of for total in range(max_runs * 2 + 1), the inner loop run
\* through, or the end of the loop
GameTotals(t) ==
    /\ threads[t].pc = "gp_totals"
    /\ threads' =
          IF threads[t].locals.total > game_max_runs * 2
          THEN [threads EXCEPT ![t].pc = "gp_return"]
          ELSE [threads EXCEPT
                   ![t].locals.total_runs_probs =
                       Store(@, threads[t].locals.total,
                             total_loop(threads[t].locals.home_probs,
                                        threads[t].locals.away_probs,
                                        threads[t].locals.total, 0,
                                        total_loop_stop(
                                            threads[t].locals.total) - 1)),
                   ![t].locals.total = @ + 1]
    /\ UNCHANGED <<sequential, services>>

\* return {...}
GameReturn(t) ==
    /\ threads[t].pc = "gp_return"
    /\ threads' = [threads EXCEPT
                      ![t].result =
                          game_return(
                              [home_expected |-> threads[t].locals.home_expected,
                               away_expected |-> threads[t].locals.away_expected,
                               home_win_prob |->
                                   threads[t].locals.wins.home_win_prob,
                               away_win_prob |->
                                   threads[t].locals.wins.away_win_prob,
                               tie_prob |-> threads[t].locals.wins.tie_prob,
                               total_runs_probs |->
                                   threads[t].locals.total_runs_probs]),
                      ![t].pc = "done"]
    /\ UNCHANGED <<sequential, services>>

\* the thread's caller takes the result; the locals of the call are gone
Join(t) ==
    /\ threads[t].pc = "done"
    /\ threads' = [threads EXCEPT ![t] = IdleThread]
    /\ UNCHANGED <<sequential, services>>

ConcurrentNext ==
    \E t \in Threads :
        \/ Begin(t)
        \/ EvTest(t)
        \/ EvPositivePayout(t)
        \/ EvNegativePayout(t)
        \/ EvValue(t)
        \/ EvReturn(t)
        \/ PoissonBlend(t)
        \/ PoissonLoop(t)
        \/ PoissonReturn(t)
        \/ GameBlend(t)
        \/ GameHomeProbs(t)
        \/ GameAwayProbs(t)
        \/ GameWins(t)
        \/ GameTotals(t)
        \/ GameReturn(t)
        \/ Join(t)

ConcurrentSpec == Init /\ [][ConcurrentNext]_vars

---------------------------------------------------------------------------
(* A session of calls with an observer.  The threads run their calls as    *)
(* above, one after another or interleaved; the observer may keep a call   *)
(* a caller takes the result of, arguments and result, to set it beside a  *)
(* later call, and counts the calls begun since.                           *)

\* an idle thread calls one of the functions; the observer counts the call
SessionBegin(t) ==
    /\ threads[t].pc = "idle"
    /\ \E call \in ConcurrentCalls :
          threads' = [threads EXCEPT ![t] =
                          [pc |-> EntryPoint(call.op), op |-> call.op,
                           args |-> call.args, locals |-> NoLocals,
                           result |-> IdleThread.result]]
    /\ earlier' = Between(earlier)
    /\ UNCHANGED <<op, args, outcome, branch, frame, services>>

\* the thread's caller takes the result; the observer keeps the call
JoinAndRemember(t) ==
    /\ threads[t].pc = "done"
    /\ threads' = [threads EXCEPT ![t] = IdleThread]
    /\ earlier' = [op |-> threads[t].op, args |-> threads[t].args,
                   outcome |-> threads[t].result, between |-> 0]
    /\ UNCHANGED <<op, args, outcome, branch, frame, services>>

SessionNext ==
    \E t \in Threads :
        \/ SessionBegin(t)
        \/ EvTest(t)
        \/ EvPositivePayout(t)
        \/ EvNegativePayout(t)
        \/ EvValue(t)
        \/ EvReturn(t)
        \/ PoissonBlend(t)
        \/ PoissonLoop(t)
        \/ PoissonReturn(t)
        \/ GameBlend(t)
        \/ GameHomeProbs(t)
        \/ GameAwayProbs(t)
        \/ GameWins(t)
        \/ GameTotals(t)
        \/ GameReturn(t)
        \/ Join(t)
        \/ JoinAndRemember(t)

SessionSpec == Init /\ [][SessionNext]_vars

---------------------------------------------------------------------------
(* The callers of the key manager.  The environment and the web app are    *)
(* outside the program: each step that asks them draws what they answer.   *)

\* everything but the key manager
beside_key_manager ==
    <<sequential, threads, error_handler, clock, handled, retry, scheduler,
      aggregation, analysis>>

KeyNames == {"SPORTRADAR_KEY", "APISPORTS_KEY"}

Defaults == {"", "YOUR-SPORTRADAR-KEY"}

\* what os.getenv answers: unset, set to the empty string, set
EnvValues == {None, "", "env-key"}

\* the values the web app holds
WebValues == {"web-key-1", "web-key-2"}

\* the outcomes of the request of get_key_from_web_app
KeyResponses ==
    {[kind |-> "exception", value |-> None],
     [kind |-> "error", value |-> None],
     [kind |-> "no_value", value |-> None]}
        \cup {[kind |-> "value", value |-> v] : v \in WebValues \cup {""}}

\* the dictionaries the web app may send as all its keys
KeyDictionaries ==
    UNION {[names -> WebValues] : names \in SUBSET KeyNames}

\* the outcomes of the request of get_all_keys_from_web_app
AllKeysResponses ==
    {[kind |-> "exception", data |-> <<>>],
     [kind |-> "error", data |-> <<>>]}
        \cup {[kind |-> "data", data |-> d] : d \in KeyDictionaries}

\* the configuration files setup_from_config_file may find
ConfigFiles ==
    {[exists |-> FALSE, web_app_url |-> None, access_token |-> None]}
        \cup {[exists |-> TRUE, web_app_url |-> u, access_token |-> t] :
                  u \in {None, "https://script.google.com/exec"},
                  t \in {None, "token"}}

\* the caller c goes on inside its method
KeyStep(c, held) ==
    [key_manager EXCEPT !.callers[c] = held, !.call = NoKeyCall]

\* the caller c returns from its method
KeyReturns(c, call) ==
    [key_manager EXCEPT !.callers[c] = IdleCaller, !.call = call]

\* key_manager.get_key(key_name, default), line 109:
\* if key_name in self.cached_keys
GetKeyTestCache ==
    /\ \E c \in Callers, key_name \in KeyNames :
        /\ key_manager.callers[c].pc = "idle"
        /\ key_manager' =
               KeyStep(c, [IdleCaller EXCEPT
                   !.pc = IF key_name \in DOMAIN key_manager.cached_keys
                          THEN "read_cache" ELSE "getenv",
                   !.key_name = key_name,
                   !.later = key_name \in key_manager.obtained])
    /\ UNCHANGED beside_key_manager

\* line 110: return self.cached_keys[key_name], a KeyError when the key is
\* no longer there
GetKeyReadCache ==
    /\ \E c \in Callers, default \in Defaults :
        LET held == key_manager.callers[c]
        IN  /\ held.pc = "read_cache"
            /\ key_manager' =
                   KeyReturns(c,
                       IF held.key_name \in DOMAIN key_manager.cached_keys
                       THEN KeyReturn(c, held, "cached",
                                key_manager.cached_keys[held.key_name],
                                default, NoResponse, FALSE)
                       ELSE KeyReturn(c, held, "KeyError", None, default,
                                      NoResponse, FALSE))
    /\ UNCHANGED beside_key_manager

\* lines 113-118 and 35: the environment variable is returned when set and
\* not empty; otherwise get_key_from_web_app tests the url, and without
\* one get_key returns the default
GetKeyEnvironment ==
    /\ \E c \in Callers, env_value \in EnvValues, default \in Defaults :
        LET held == [key_manager.callers[c] EXCEPT
                          !.env_value = env_value]
        IN  /\ key_manager.callers[c].pc = "getenv"
            /\ key_manager' =
                   IF Truthy(env_value)
                   THEN KeyReturns(c, KeyReturn(c, held, "environment",
                            env_value, default, NoResponse, FALSE))
                   ELSE IF ~has_url(key_manager)
                   THEN KeyReturns(c, KeyReturn(c, held, "default",
                            default, default, NoResponse, FALSE))
                   ELSE KeyStep(c, [held EXCEPT !.pc = "test_token"])
    /\ UNCHANGED beside_key_manager

\* lines 35-45: the token is tested; without one get_key returns the
\* default, with one requests.get is called
GetKeyTestToken ==
    /\ \E c \in Callers, default \in Defaults :
        LET held == key_manager.callers[c]
        IN  /\ held.pc = "test_token"
            /\ key_manager' =
                   IF ~has_token(key_manager)
                   THEN KeyReturns(c, KeyReturn(c, held, "default",
                            default, default, NoResponse, FALSE))
                   ELSE KeyStep(c, [held EXCEPT !.pc = "request"])
    /\ UNCHANGED beside_key_manager

\* lines 45-57 and 119-124: requests.get has answered or raised; a value
\* that is not empty is stored and returned, otherwise the default is
\* returned
GetKeyResponse ==
    /\ \E c \in Callers, response \in KeyResponses, default \in Defaults :
        LET held == key_manager.callers[c]
            web_app_value == web_app_value_of(response)
        IN  /\ held.pc = "request"
            /\ key_manager' =
                   IF Truthy(web_app_value)
                   THEN [KeyReturns(c, KeyReturn(c, held, "web_app",
                             web_app_value, default, response, TRUE))
                         EXCEPT
                            !.cached_keys = store_key(@, held.key_name,
                                                      web_app_value),
                            !.obtained = @ \cup {held.key_name}]
                   ELSE KeyReturns(c, KeyReturn(c, held, "default",
                            default, default, response, TRUE))
    /\ UNCHANGED beside_key_manager

\* get_all_keys_from_web_app returns {} without a request
AllKeysUnconfigured(c) ==
    [method |-> "get_all_keys_from_web_app", caller |-> c,
     response |-> [kind |-> "none", data |-> <<>>],
     value |-> <<>>, contacted |-> FALSE]

\* key_manager.get_all_keys_from_web_app(), lines 66-67: without a url it
\* returns {}
GetAllTestUrl ==
    /\ \E c \in Callers :
        /\ key_manager.callers[c].pc = "idle"
        /\ key_manager' =
               IF ~has_url(key_manager)
               THEN KeyReturns(c, AllKeysUnconfigured(c))
               ELSE KeyStep(c, [IdleCaller EXCEPT !.pc = "all_test_token"])
    /\ UNCHANGED beside_key_manager

\* lines 66-75: without a token it returns {}, with one requests.get is
\* called
GetAllTestToken ==
    /\ \E c \in Callers :
        /\ key_manager.callers[c].pc = "all_test_token"
        /\ key_manager' =
               IF ~has_token(key_manager)
               THEN KeyReturns(c, AllKeysUnconfigured(c))
               ELSE KeyStep(c, [IdleCaller EXCEPT !.pc = "all_request"])
    /\ UNCHANGED beside_key_manager

\* lines 75-89: requests.get has answered or raised; the data replace
\* cached_keys and are returned, an error or an exception returns {}
GetAllResponse ==
    /\ \E c \in Callers, response \in AllKeysResponses :
        /\ key_manager.callers[c].pc = "all_request"
        /\ key_manager' =
               [KeyReturns(c, [method |-> "get_all_keys_from_web_app",
                               caller |-> c, response |-> response,
                               value |-> response.data,
                               contacted |-> TRUE])
                EXCEPT
                   !.cached_keys = IF response.kind = "data"
                                   THEN response.data ELSE @,
                   !.obtained = IF response.kind = "data"
                                THEN @ \cup DOMAIN response.data ELSE @]
    /\ UNCHANGED beside_key_manager

\* key_manager.setup_from_config_file(config_path), lines 134-138: a
\* missing or unreadable file leaves the manager as it is, a file read
\* assigns the url
SetupReadFile ==
    /\ \E c \in Callers, config \in ConfigFiles :
        /\ key_manager.callers[c].pc = "idle"
        /\ key_manager' =
               IF ~config.exists
               THEN KeyReturns(c, [method |-> "setup_from_config_file",
                                   caller |-> c, config |-> config])
               ELSE [KeyStep(c, [IdleCaller EXCEPT
                                    !.pc = "set_token",
                                    !.access_token = config.access_token])
                     EXCEPT !.web_app_url = config.web_app_url]
    /\ UNCHANGED beside_key_manager

\* line 139: the token is assigned
SetupSetToken ==
    /\ \E c \in Callers :
        LET held == key_manager.callers[c]
        IN  /\ held.pc = "set_token"
            /\ key_manager' =
                   [KeyReturns(c, [method |-> "setup_from_config_file",
                                   caller |-> c,
                                   config |-> [exists |-> TRUE,
                                       web_app_url |->
                                           key_manager.web_app_url,
                                       access_token |->
                                           held.access_token]])
                    EXCEPT !.access_token = held.access_token]
    /\ UNCHANGED beside_key_manager

KeyManagerNext ==
    \/ GetKeyTestCache
    \/ GetKeyReadCache
    \/ GetKeyEnvironment
    \/ GetKeyTestToken
    \/ GetKeyResponse
    \/ GetAllTestUrl
    \/ GetAllTestToken
    \/ GetAllResponse
    \/ SetupReadFile
    \/ SetupSetToken

KeyManagerSpec == Init /\ [][KeyManagerNext]_vars

---------------------------------------------------------------------------
(* The callers of the error handler: the threads that share one handler,  *)
(* as web_dashboard.py's error_handler.  handled is the call on the        *)
(* handler that returned in the last step with what it did, and where      *)
(* each caller stands; clock is datetime.now().  handle_error is a         *)
(* sequence of steps, one up to each write of a log record, where the      *)
(* thread waits and the other runs: nothing in the class is locked.        *)

\* everything but the error handler and the clock
beside_error_handler ==
    <<sequential, threads, key_manager, retry, scheduler, aggregation,
      analysis>>

\* the clock runs over 0..MaxClock hours
MaxClock == 1

\* the counts of all keys together reach at most MaxCount
MaxCount == 3

\* config["error_thresholds"]: the defaults, or those of an
\* error_config.json that sets its own
Thresholds ==
    {DefaultThresholds,
     [max_consecutive_failures |-> 2, circuit_breaker_threshold |-> 1]}

Contexts == {"fangraphs_api", "test_context"}

Errors ==
    {[type |-> "ValueError",
      bases |-> {"ValueError", "Exception", "BaseException"},
      message |-> "invalid literal", code |-> ""],
     [type |-> "ConnectionError",
      bases |-> {"ConnectionError", "OSError", "Exception",
                 "BaseException"},
      message |-> "503 Service Unavailable", code |-> "503"],
     [type |-> "TimeoutError",
      bases |-> {"TimeoutError", "OSError", "Exception",
                 "BaseException"},
      message |-> "slow", code |-> ""]}

\* the caller c goes on inside handle_error
HandlingStep(c, held) == NotHandled([handled.callers EXCEPT ![c] = held])

\* the caller c returns from its call
HandlingReturns(c, call) ==
    SetItem(call, "callers", [handled.callers EXCEPT ![c] = IdleHandling])

\* what handle_error did when it returns or raises
Handled(held, critical, raised) ==
    [method |-> "handle_error", error |-> held.error,
     context |-> held.context, critical |-> critical, raised |-> raised]

\* handler = MLBErrorHandler(config_file): a new object, no call on it
\* under way
NewHandler ==
    /\ \A c \in Callers : handled.callers[c].pc = "idle"
    /\ \E thresholds \in Thresholds :
           error_handler' = NewErrorHandler(thresholds, clock)
    /\ handled' = SetItem([method |-> "__init__"], "callers",
                          handled.callers)
    /\ UNCHANGED <<clock, beside_error_handler>>

\* handler.handle_error(error, context, operation), lines 172-188: the
\* error is counted under its key, and the record is handed to the log
HandleErrorTrack ==
    /\ \E c \in Callers, error \in Errors, context \in Contexts :
        /\ handled.callers[c].pc = "idle"
        /\ SumCounts(error_handler.error_counts,
                     DOMAIN error_handler.error_counts) < MaxCount
        /\ error_handler' = track_error(error_handler, error, context, clock)
        /\ handled' = HandlingStep(c, [pc |-> "log", error |-> error,
                                       context |-> context])
    /\ UNCHANGED <<clock, beside_error_handler>>

\* lines 188-197: the record is written; _is_critical_error reads the count
\* of the key, a KeyError when reset_error_counts has cleared it; a
\* critical error hands its record to the log (line 223), any other
\* updates the status and handle_error returns
HandleErrorLogged ==
    /\ \E c \in Callers :
        LET held == handled.callers[c]
            error_key == error_key_of(held.error, held.context)
        IN  /\ held.pc = "log"
            /\ IF is_critical_raises(error_handler, error_key)
               THEN /\ error_handler' = error_handler
                    /\ handled' = HandlingReturns(c,
                                      Handled(held, FALSE, "KeyError"))
               ELSE IF is_critical_error(error_handler, held.error,
                                         error_key)
               THEN /\ error_handler' = error_handler
                    /\ handled' = HandlingStep(c,
                                      [held EXCEPT !.pc = "critical_log"])
               ELSE /\ error_handler' =
                           update_system_status(error_handler, clock)
                    /\ handled' = HandlingReturns(c,
                                      Handled(held, FALSE, None))
    /\ UNCHANGED <<clock, beside_error_handler>>

\* lines 223-235 and 195-197: the critical record is written, the status
\* becomes "critical", then the status is updated and handle_error returns
HandleErrorAlerted ==
    /\ \E c \in Callers :
        LET held == handled.callers[c]
        IN  /\ held.pc = "critical_log"
            /\ error_handler' =
                   update_system_status(
                       handle_critical_error(error_handler, clock), clock)
            /\ handled' = HandlingReturns(c, Handled(held, TRUE, None))
    /\ UNCHANGED <<clock, beside_error_handler>>

\* handler.reset_error_counts(), by a thread that is not in handle_error
ResetErrorCounts ==
    /\ \E c \in Callers : handled.callers[c].pc = "idle"
    /\ error_handler' = reset_error_counts(error_handler)
    /\ handled' = SetItem([method |-> "reset_error_counts"], "callers",
                          handled.callers)
    /\ UNCHANGED <<clock, beside_error_handler>>

\* handler.get_system_health(), by a thread that is not in handle_error
GetSystemHealth ==
    /\ \E c \in Callers : handled.callers[c].pc = "idle"
    /\ handled' = SetItem([method |-> "get_system_health",
                           health |-> get_system_health(error_handler)],
                          "callers", handled.callers)
    /\ UNCHANGED <<error_handler, clock, beside_error_handler>>

\* an hour passes
HourPasses ==
    /\ clock < MaxClock
    /\ clock' = clock + 1
    /\ UNCHANGED <<error_handler, handled, beside_error_handler>>

ErrorHandlerNext ==
    \/ NewHandler
    \/ HandleErrorTrack
    \/ HandleErrorLogged
    \/ HandleErrorAlerted
    \/ ResetErrorCounts
    \/ GetSystemHealth
    \/ HourPasses

ErrorHandlerSpec == Init /\ [][ErrorHandlerNext]_vars

---------------------------------------------------------------------------
(* A function wrapped by retry_on_failure(max_retries, delay, backoff) and *)
(* called without an object that carries an error_handler: the wrapper     *)
(* builds its own MLBErrorHandler(), held in retry.error_handler.  raised  *)
(* lists the exceptions the invocations raised and waits the sleeps, in    *)
(* order.                                                                  *)

\* everything but the call of the wrapped function
beside_retry ==
    <<sequential, threads, key_manager, error_handler, clock, handled,
      scheduler, aggregation, analysis>>

\* max_retries ranges over 0..MaxRetriesArg
MaxRetriesArg == 2

\* delay ranges over 0..MaxDelay seconds
MaxDelay == 2

\* backoff ranges over 0..MaxBackoff
MaxBackoff == 2

\* func.__name__ of the wrapped function
WrappedName == "fetch_data"

\* the wrapper is called: it builds its handler and enters the loop
CallWrapped ==
    /\ retry.pc = "idle"
    /\ \E max_retries \in 0..MaxRetriesArg, delay \in 0..MaxDelay,
          backoff \in 0..MaxBackoff :
           retry' =
               [NoRetry EXCEPT
                   !.max_retries = max_retries,
                   !.delay = delay,
                   !.backoff = backoff,
                   !.error_handler =
                       NewErrorHandler(DefaultThresholds, clock),
                   !.pc = IF 0 < attempts_of(max_retries)
                          THEN "try" ELSE "done",
                   !.outcome = IF 0 < attempts_of(max_retries)
                               THEN [kind |-> "none"]
                               ELSE [kind |-> "returned", value |-> None,
                                     invocation |-> 0]]
    /\ UNCHANGED beside_retry

\* return func(*args, **kwargs): the invocation returns its result, noted
\* with the number of the invocation
FuncReturns ==
    /\ retry.pc = "try"
    /\ retry' = [retry EXCEPT
                    !.invocations = @ + 1,
                    !.outcome = [kind |-> "returned", value |-> "result",
                                 invocation |-> retry.invocations + 1],
                    !.pc = "done"]
    /\ UNCHANGED beside_retry

\* the invocation raises an Exception, which the except clause catches
FuncRaises ==
    /\ retry.pc = "try"
    /\ \E error \in Errors :
           retry' = [retry EXCEPT
                        !.invocations = @ + 1,
                        !.raised = Append(@, error),
                        !.pc = "except"]
    /\ UNCHANGED beside_retry

\* the invocation raises a BaseException that is no Exception
\* (KeyboardInterrupt, SystemExit): no clause catches it
FuncInterrupted ==
    /\ retry.pc = "try"
    /\ retry' = [retry EXCEPT
                    !.invocations = @ + 1,
                    !.outcome = [kind |-> "raised",
                                 error |-> [type |-> "KeyboardInterrupt",
                                            bases |-> {"KeyboardInterrupt",
                                                       "BaseException"},
                                            message |-> "", code |-> ""]],
                    !.pc = "done"]
    /\ UNCHANGED beside_retry

\* if attempt == max_retries: handle_error(e, ...); raise
FinalAttemptFailed ==
    /\ retry.pc = "except"
    /\ is_final_attempt(retry.attempt, retry.max_retries)
    /\ retry' = [retry EXCEPT
                    !.error_handler =
                        handle_error(@, retry.raised[Len(retry.raised)],
                                     WrappedName, clock),
                    !.handle_error_calls = @ + 1,
                    !.outcome = [kind |-> "raised",
                                 error |-> retry.raised[Len(retry.raised)]],
                    !.pc = "done"]
    /\ UNCHANGED beside_retry

\* otherwise: time.sleep(wait_time), then the next pass of the loop, or
\* the end of the function (which returns None) after the last pass
SleepAndRetry ==
    /\ retry.pc = "except"
    /\ ~is_final_attempt(retry.attempt, retry.max_retries)
    /\ retry' = [retry EXCEPT
                    !.waits = Append(@, wait_time_of(retry.delay,
                                                     retry.backoff,
                                                     retry.attempt)),
                    !.attempt = @ + 1,
                    !.pc = IF retry.attempt + 1
                                < attempts_of(retry.max_retries)
                           THEN "try" ELSE "done",
                    !.outcome = IF retry.attempt + 1
                                     < attempts_of(retry.max_retries)
                                THEN @
                                ELSE [kind |-> "returned", value |-> None,
                                     invocation |-> 0]]
    /\ UNCHANGED beside_retry

\* the caller has the outcome of the wrapper
WrapperDone ==
    /\ retry.pc = "done"
    /\ retry' = NoRetry
    /\ UNCHANGED beside_retry

RetryNext ==
    \/ CallWrapped
    \/ FuncReturns
    \/ FuncRaises
    \/ FuncInterrupted
    \/ FinalAttemptFailed
    \/ SleepAndRetry
    \/ WrapperDone

RetrySpec == Init /\ [][RetryNext]_vars

---------------------------------------------------------------------------
(* The scheduler: one caller starts and stops it, and the polling threads  *)
(* run beside the caller, also between the statements of start_scheduler.  *)
(* stop_scheduler waits for the thread at most 5 seconds, while a polling  *)
(* thread sleeps 60 seconds in each pass.                                  *)

\* everything but the scheduler
beside_scheduler ==
    <<sequential, threads, key_manager, error_handler, clock, handled,
      retry, aggregation, analysis>>

\* start_scheduler creates at most MaxPolling threads
MaxPolling == 3

\* setup_schedules is called from outside start_scheduler at most
\* MaxSetups times
MaxSetups == 2

\* the polling threads that have not left run_scheduler
AlivePolling ==
    {t \in 1..Len(scheduler.polling) : scheduler.polling[t].pc # "exited"}

\* start_scheduler() while is_running: a warning, nothing else
StartSchedulerAlreadyRunning ==
    /\ scheduler.caller = "ready"
    /\ scheduler.is_running
    /\ UNCHANGED scheduler
    /\ UNCHANGED beside_scheduler

\* scheduler.setup_schedules(), lines 314-329, called on its own: the five
\* jobs are registered, nothing else changes
SetupSchedules ==
    /\ scheduler.caller = "ready"
    /\ scheduler.direct_setups < MaxSetups
    /\ scheduler' =
           [scheduler EXCEPT
               !.jobs = setup_schedules(@),
               !.direct_setups = @ + 1]
    /\ UNCHANGED beside_scheduler

\* start_scheduler(), lines 333-337 and 316-329: is_running is false;
\* setup_schedules() registers the five jobs and writes its log record
StartSchedulerSetup ==
    /\ scheduler.caller = "ready"
    /\ ~scheduler.is_running
    /\ Len(scheduler.polling) < MaxPolling
    /\ scheduler' =
           [scheduler EXCEPT
               !.jobs = setup_schedules(@),
               !.caller = "set_running"]
    /\ UNCHANGED beside_scheduler

\* line 338: self.is_running = True
StartSchedulerSetRunning ==
    /\ scheduler.caller = "set_running"
    /\ scheduler' =
           [scheduler EXCEPT
               !.is_running = TRUE,
               !.polling =
                   [t \in 1..Len(@) |-> [@[t] EXCEPT !.looped = FALSE]],
               !.caller = "start_thread"]
    /\ UNCHANGED beside_scheduler

\* lines 346-349: a new thread is created and started
StartSchedulerThread ==
    /\ scheduler.caller = "start_thread"
    /\ scheduler' =
           [scheduler EXCEPT
               !.polling = Append(@, NewPollingThread),
               !.scheduler_thread = Len(scheduler.polling) + 1,
               !.caller = "ready"]
    /\ UNCHANGED beside_scheduler

\* stop_scheduler(): is_running = False, then join(timeout=5) when there
\* is a thread
StopScheduler ==
    /\ scheduler.caller = "ready"
    /\ scheduler' =
           [scheduler EXCEPT
               !.is_running = FALSE,
               !.caller = IF scheduler.scheduler_thread # 0
                          THEN "join" ELSE "ready"]
    /\ UNCHANGED beside_scheduler

\* join returns because the thread has ended
JoinReturns ==
    /\ scheduler.caller = "join"
    /\ scheduler.polling[scheduler.scheduler_thread].pc = "exited"
    /\ scheduler' = [scheduler EXCEPT !.caller = "ready"]
    /\ UNCHANGED beside_scheduler

\* join returns after 5 seconds, the thread still in its pass: running the
\* due jobs, or in its sleep of 60 seconds
JoinTimesOut ==
    /\ scheduler.caller = "join"
    /\ scheduler.polling[scheduler.scheduler_thread].pc
           \in {"run_pending", "sleep"}
    /\ scheduler' = [scheduler EXCEPT !.caller = "ready"]
    /\ UNCHANGED beside_scheduler

\* while self.is_running: a thread enters a pass or leaves run_scheduler
TestIsRunning(t) ==
    /\ scheduler.polling[t].pc = "while"
    /\ scheduler' =
           [scheduler EXCEPT
               !.polling[t] =
                   IF scheduler.is_running
                   THEN [pc |-> "run_pending", looped |-> TRUE]
                   ELSE [pc |-> "exited", looped |-> FALSE]]
    /\ UNCHANGED beside_scheduler

\* schedule.run_pending(): the due jobs run; no registration changes
RunPending(t) ==
    /\ scheduler.polling[t].pc = "run_pending"
    /\ scheduler' = [scheduler EXCEPT !.polling[t].pc = "sleep"]
    /\ UNCHANGED beside_scheduler

\* time.sleep(60) ends
SleepEnds(t) ==
    /\ scheduler.polling[t].pc = "sleep"
    /\ scheduler' = [scheduler EXCEPT !.polling[t].pc = "while"]
    /\ UNCHANGED beside_scheduler

SchedulerNext ==
    \/ StartSchedulerAlreadyRunning
    \/ SetupSchedules
    \/ StartSchedulerSetup
    \/ StartSchedulerSetRunning
    \/ StartSchedulerThread
    \/ StopScheduler
    \/ JoinReturns
    \/ JoinTimesOut
    \/ \E t \in 1..Len(scheduler.polling) :
          \/ TestIsRunning(t)
          \/ RunPending(t)
          \/ SleepEnds(t)

SchedulerSpec == Init /\ [][SchedulerNext]_vars

---------------------------------------------------------------------------
(* update_ev_poisson over a sheet of at most MaxRows rows: the rows are    *)
(* read one by one, then the averages go to the "EV Poisson" sheet.        *)

\* everything but the aggregation
beside_aggregation ==
    <<sequential, threads, key_manager, error_handler, clock, handled,
      retry, scheduler, analysis>>

\* the sheet holds at most MaxRows rows
MaxRows == 2

\* a score is at most MaxScore runs
MaxScore == 2

\* the team names of a row; '' is a missing name
TeamCells == {"", "NYY", "BOS"}

\* the score cells of a row
ScoreCells ==
    {[kind |-> "number", number |-> n] : n \in {0, MaxScore}}
        \cup {[kind |-> "numeric_text", number |-> MaxScore - 1],
              [kind |-> "empty", number |-> 0],
              [kind |-> "text", number |-> 0]}

\* the rows of the sheet
HistoricalRows ==
    [home_team : TeamCells, away_team : TeamCells,
     home_score : ScoreCells, away_score : ScoreCells]

\* update_ev_poisson(spreadsheet) on a sheet with rows: team_stats = {}
BeginUpdate ==
    /\ aggregation.pc = "idle"
    /\ aggregation' = [NoAggregation EXCEPT !.pc = "rows"]
    /\ UNCHANGED beside_aggregation

\* one pass of the loop over the rows
AggregateRow ==
    /\ aggregation.pc = "rows"
    /\ aggregation.rows < MaxRows
    /\ \E row \in HistoricalRows :
           aggregation' =
               [aggregation EXCEPT
                   !.rows = @ + 1,
                   !.row = row,
                   !.before = aggregation.team_stats,
                   !.team_stats = aggregate_row(@, row)]
    /\ UNCHANGED beside_aggregation

\* after the last row: the averages and the rows written to the sheet
WriteAverages ==
    /\ aggregation.pc = "rows"
    /\ aggregation.rows > 0
    /\ aggregation' =
           [aggregation EXCEPT
               !.pc = "written",
               !.ev_rows = ev_rows(aggregation.team_stats)]
    /\ UNCHANGED beside_aggregation

\* update_ev_poisson has returned
UpdateDone ==
    /\ aggregation.pc = "written"
    /\ aggregation' = NoAggregation
    /\ UNCHANGED beside_aggregation

AggregationNext ==
    \/ BeginUpdate
    \/ AggregateRow
    \/ WriteAverages
    \/ UpdateDone

AggregationSpec == Init /\ [][AggregationNext]_vars

---------------------------------------------------------------------------
(* run_ev_poisson_analysis(games, odds, parks) on at most MaxGames games   *)
(* and MaxParks parks, one pass of the loop at a time.                     *)

\* everything but the analysis
beside_analysis ==
    <<sequential, threads, key_manager, error_handler, clock, handled,
      retry, scheduler, aggregation>>

\* games holds at most MaxGames games
MaxGames == 3

\* parks holds at most MaxParks entries
MaxParks == 2

\* park factors are DefaultParkFactor - ParkSpread .. DefaultParkFactor +
\* ParkSpread tenths
ParkSpread == 1

\* a park factor of -ColdParkFactor tenths, a wrong entry of the sheet
ColdParkFactor == 810

\* the games of a schedule
Games ==
    {[kind |-> "game", home |-> "NYY", away |-> "BOS"],
     [kind |-> "game", home |-> "LAD", away |-> "SF"],
     [kind |-> "no_teams", home |-> "", away |-> ""]}

\* the entries of parks
Parks ==
    {[kind |-> "number", tenths |-> t] :
        t \in (DefaultParkFactor - ParkSpread)
                 ..(DefaultParkFactor + ParkSpread)}
        \cup {[kind |-> "number", tenths |-> -ColdParkFactor],
              [kind |-> "missing", tenths |-> 0],
              [kind |-> "text", tenths |-> 0]}

\* the lists of at most n elements of a set
ListsUpTo(set, n) == UNION {[1..len -> set] : len \in 0..n}

\* run_ev_poisson_analysis(games, odds, parks): game_analyzer = []
CallAnalysis ==
    /\ analysis.pc = "idle"
    /\ \E games \in ListsUpTo(Games, MaxGames),
          parks \in ListsUpTo(Parks, MaxParks) :
           analysis' = [NoAnalysis EXCEPT
                           !.pc = "loop", !.games = games, !.parks = parks]
    /\ UNCHANGED beside_analysis

\* one pass of the loop
ProcessGame ==
    /\ analysis.pc = "loop"
    /\ analysis.i < Len(analysis.games)
    /\ analysis' = process_game(analysis)
    /\ UNCHANGED beside_analysis

\* return {"game_analyzer": game_analyzer}
ReturnAnalysis ==
    /\ analysis.pc = "loop"
    /\ analysis.i = Len(analysis.games)
    /\ analysis' = [analysis EXCEPT !.pc = "returned"]
    /\ UNCHANGED beside_analysis

\* the caller has taken the result
AnalysisTaken ==
    /\ analysis.pc = "returned"
    /\ analysis' = NoAnalysis
    /\ UNCHANGED beside_analysis

AnalysisNext ==
    \/ CallAnalysis
    \/ ProcessGame
    \/ ReturnAnalysis
    \/ AnalysisTaken

AnalysisSpec == Init /\ [][AnalysisNext]_vars

---------------------------------------------------------------------------
(* Properties of calculate_poisson_probabilities                           *)
(* (the spec's estimate_run_distribution).                                 *)

RunDistributionCalled == op = "calculate_poisson_probabilities"

\* the blended rate (team_avg + opponent_avg) / 2 of the call, as a rational
BlendedRate == <<args.team_avg + args.opponent_avg, 2>>

\* the mapping the same averages give with the bound raised by one
NextTruncation ==
    calculate_poisson_probabilities(args.team_avg, args.opponent_avg,
                                    args.max_runs + 1).value

\* C1 as stated: for EVERY team_avg, opponent_avg and max_runs >= 0 the
\* call returns a mapping with keys exactly 0..max_runs whose value at r is
\* the number expected_runs^r * e^(-expected_runs) / r! at the blended
\* rate.  The expression is a real number at every rate, so each value is
\* a number; at a rate >= 0 it is the Poisson mass.
C1_AsStated ==
    (RunDistributionCalled /\ args.max_runs >= 0) =>
        /\ outcome.kind = "returned"
        /\ DOMAIN outcome.value = 0..args.max_runs
        /\ \A r \in 0..args.max_runs :
              /\ outcome.value[r] # NaN
              /\ BlendedRate[1] >= 0 =>
                    outcome.value[r] = PoissonMass(r, BlendedRate)

\* C1 (amended): for every team_avg, opponent_avg and max_runs >= 0 the
\* call returns a mapping with keys exactly 0..max_runs; when
\* team_avg + opponent_avg >= 0 the value at each r is the Poisson mass at
\* the blended rate (team_avg + opponent_avg) / 2, and when
\* team_avg + opponent_avg < 0 every value is NaN.
C1_BlendedPmf ==
    (RunDistributionCalled /\ args.max_runs >= 0) =>
        /\ outcome.kind = "returned"
        /\ DOMAIN outcome.value = 0..args.max_runs
        /\ \A r \in 0..args.max_runs :
              outcome.value[r] =
                  IF args.team_avg + args.opponent_avg >= 0
                  THEN PoissonMass(r, BlendedRate)
                  ELSE NaN
        \* the masses obey p(0) = e^(-rate) and r * p(r) = rate * p(r - 1),
        \* the latter up to the rounding of one division by 2 * r
        /\ args.team_avg + args.opponent_avg >= 0 =>
              /\ outcome.value[0] = ExpNeg(BlendedRate)
              /\ \A r \in 1..args.max_runs :
                    outcome.value[r]
                        - (outcome.value[r - 1] \div (2 * r))
                              * (args.team_avg + args.opponent_avg)
                      \in 0..(args.team_avg + args.opponent_avg)

\* a call with unequal averages, a positive blended rate and a bound of at
\* least 2 has returned positive masses
C1_Witness ==
    /\ RunDistributionCalled
    /\ args.team_avg # args.opponent_avg
    /\ args.team_avg + args.opponent_avg > 0
    /\ args.max_runs >= 2
    /\ outcome.kind = "returned"
    /\ outcome.value[2] > 0
    /\ outcome.value[2] = PoissonMass(2, BlendedRate)

\* C2: no normalisation.  For every blended rate >= 0 and max_runs >= 0
\* the returned masses sum to at most 1; each returned p(r) is the raw
\* mass, the one the same call returns at r under a larger bound; and the
\* mass of the first dropped run count is still missing from the total
\* (the truncated masses are not rescaled to sum to 1).
C2_NoNormalisation ==
    (RunDistributionCalled /\ args.max_runs >= 0 /\ BlendedRate[1] >= 0) =>
        /\ outcome.kind = "returned"
        /\ MassSum(outcome.value, args.max_runs) <= Scale
        /\ \A r \in 0..args.max_runs :
              outcome.value[r] = NextTruncation[r]
        /\ MassSum(outcome.value, args.max_runs)
               + NextTruncation[args.max_runs + 1] <= Scale

\* a call at a positive rate whose returned masses sum to strictly less
\* than 1, the dropped tail being positive
C2_Witness ==
    /\ RunDistributionCalled
    /\ args.max_runs >= 1
    /\ BlendedRate[1] > 0
    /\ outcome.kind = "returned"
    /\ NextTruncation[args.max_runs + 1] > 0
    /\ MassSum(outcome.value, args.max_runs) < Scale
    /\ MassSum(outcome.value, args.max_runs) > 0

\* C3 as stated: for all expected_runs >= 0, expected_runs = 0 included,
\* the sum of the masses over 0..m+1 is strictly greater than the sum over
\* 0..m, for every m >= 0.
C3_AsStated ==
    (RunDistributionCalled /\ args.max_runs >= 0 /\ BlendedRate[1] >= 0) =>
        MassSum(NextTruncation, args.max_runs + 1)
            > MassSum(outcome.value, args.max_runs)

\* C3 (amended): for all expected_runs >= 0 the sum of the masses over
\* 0..m+1 is never less than the sum over 0..m, for every m >= 0; it is
\* strictly greater only if expected_runs > 0, and at expected_runs = 0
\* the sum is exactly 1 for every m.
C3_TruncationMonotone ==
    (RunDistributionCalled /\ args.max_runs >= 0 /\ BlendedRate[1] >= 0) =>
        LET here == MassSum(outcome.value, args.max_runs)
            next == MassSum(NextTruncation, args.max_runs + 1)
        IN  /\ here # NaN
            /\ next >= here
            /\ next > here => BlendedRate[1] > 0
            /\ BlendedRate[1] = 0 => (here = Scale /\ next = Scale)

\* a call at rate 0 with a bound of at least 1 whose masses sum to 1, as
\* they do under the next bound
C3_Witness ==
    /\ RunDistributionCalled
    /\ args.max_runs >= 1
    /\ BlendedRate[1] = 0
    /\ outcome.kind = "returned"
    /\ MassSum(outcome.value, args.max_runs) = Scale
    /\ MassSum(NextTruncation, args.max_runs + 1) = Scale

\* C4: when team_avg + opponent_avg = 0 the call returns p(0) = 1 and
\* p(r) = 0 for every r in 1..max_runs; poisson_prob(0, k) likewise is 1
\* at k = 0 and 0 at every k >= 1.
C4_ZeroRate ==
    /\ (RunDistributionCalled /\ args.max_runs >= 0
            /\ args.team_avg + args.opponent_avg = 0) =>
          /\ outcome.kind = "returned"
          /\ outcome.value[0] = Scale
          /\ \A r \in 1..args.max_runs : outcome.value[r] = 0
    /\ (op = "poisson_prob" /\ args.lam[1] = 0) =>
          outcome.value = IF args.k = 0 THEN Scale ELSE 0

\* a call with a negative and a positive average that cancel, and a bound
\* of at least 1, has returned all its mass at 0 runs
C4_Witness ==
    /\ RunDistributionCalled
    /\ args.team_avg < 0
    /\ args.team_avg + args.opponent_avg = 0
    /\ args.max_runs >= 1
    /\ outcome.kind = "returned"
    /\ outcome.value[0] = Scale
    /\ outcome.value[args.max_runs] = 0

\* C5 as stated: the call fails with InvalidArgument, and returns no
\* distribution, whenever team_avg or opponent_avg is negative.
C5_AsStated ==
    (RunDistributionCalled /\ (args.team_avg < 0 \/ args.opponent_avg < 0)) =>
        /\ outcome.kind = "raised"
        /\ outcome.error = "InvalidArgument"

\* C9 as stated: a negative max_runs is reported as InvalidArgument; it is
\* never turned into a result such as an empty distribution.
C9_AsStated ==
    (RunDistributionCalled /\ args.max_runs < 0) =>
        /\ outcome.kind = "raised"
        /\ outcome.error = "InvalidArgument"

---------------------------------------------------------------------------
(* Properties of calculate_expected_value (the spec's expected_value).     *)

ExpectedValueCalled == op = "calculate_expected_value"

\* C6 as stated: the call fails with InvalidArgument whenever odds = 0,
\* for any probability and stake, and returns no number.
C6_AsStated ==
    (ExpectedValueCalled /\ args.odds = 0) =>
        /\ outcome.kind = "raised"
        /\ outcome.error = "InvalidArgument"

\* C7 as stated: a call with odds = 0 takes the negative-odds (else)
\* branch and silently computes and returns a value rather than raising
\* any error.
C7_AsStated ==
    (ExpectedValueCalled /\ args.odds = 0) =>
        /\ branch = "negative"
        /\ outcome.kind = "returned"

\* C7 (amended): a call with odds = 0 (a Python int or float) takes the
\* negative-odds (else) branch, where 100 / abs(odds) raises
\* ZeroDivisionError: no value is returned.
C7_ZeroOddsDivides ==
    (ExpectedValueCalled /\ args.odds = 0) =>
        /\ branch = "negative"
        /\ outcome.kind = "raised"
        /\ outcome.error = "ZeroDivisionError"

\* a call with odds = 0, a probability inside [0, 1] and a positive stake
\* has raised in the negative-odds branch
C7_Witness ==
    /\ ExpectedValueCalled
    /\ args.odds = 0
    /\ args.probability[1] > 0
    /\ args.probability[1] < ProbDen
    /\ args.bet_amount > 0
    /\ branch = "negative"
    /\ outcome.kind = "raised"

\* C8 as stated: every call whose probability is below 0 or above 1 is
\* rejected with an error, for any non-zero odds and positive stake.
C8_AsStated ==
    (/\ ExpectedValueCalled
     /\ args.odds # 0
     /\ args.bet_amount > 0
     /\ (args.probability[1] < 0 \/ args.probability[1] > args.probability[2])) =>
        outcome.kind = "raised"

\* C10: for every probability p = pn / pd, stake b and odds # 0 the call
\* returns p * payout - (1 - p) * b with payout = b * odds / 100 when
\* odds > 0 and payout = b * 100 / abs(odds) when odds < 0, the branch
\* being selected by the sign of odds alone.  With the returned value
\* num / den the equation is cross-multiplied:
\*   odds > 0: num * (pd * 100) = den * (pn * b * odds - (pd - pn) * b * 100)
\*   odds < 0: num * (pd * |odds|)
\*                 = den * (pn * b * 100 - (pd - pn) * b * |odds|)
C10_ExpectedValueFormula ==
    (ExpectedValueCalled /\ args.odds # 0) =>
        LET pn == args.probability[1]
            pd == args.probability[2]
            b  == args.bet_amount
            o  == args.odds
        IN  /\ outcome.kind = "returned"
            /\ outcome.value[2] > 0
            /\ branch = (IF o > 0 THEN "positive" ELSE "negative")
            /\ o > 0 =>
                  outcome.value[1] * (pd * 100)
                      = outcome.value[2] * (pn * b * o - (pd - pn) * b * 100)
            /\ o < 0 =>
                  outcome.value[1] * (pd * (-o))
                      = outcome.value[2]
                            * (pn * b * 100 - (pd - pn) * b * (-o))

\* a call at odds below -100 with a probability strictly inside (0, 1) and
\* a positive stake has returned a positive expected value
C10_Witness ==
    /\ ExpectedValueCalled
    /\ args.odds < -100
    /\ args.probability[1] > 0
    /\ args.probability[1] < ProbDen
    /\ args.bet_amount > 0
    /\ outcome.kind = "returned"
    /\ outcome.value[1] > 0
    /\ branch = "negative"

\* C11: calculate_expected_value is zero at the break-even probability of
\* the offered price: with stake 100 the call at p = 0.5 and odds +100
\* returns exactly 0, and the call at p = 0.6 and odds -150 returns a value
\* that is 0.00 to two decimal places (less than 0.005 in size); in general,
\* for any stake, the value is 0 when p = 100 / (odds + 100) at odds > 0 and
\* when p = |odds| / (|odds| + 100) at odds < 0.
C11_BreakEven ==
    ExpectedValueCalled =>
        LET pn == args.probability[1]
            pd == args.probability[2]
            b  == args.bet_amount
            o  == args.odds
        IN  /\ (2 * pn = pd /\ o = 100 /\ b = 100) =>
                  /\ outcome.kind = "returned"
                  /\ outcome.value = <<0, 1>>
            /\ (5 * pn = 3 * pd /\ o = -150 /\ b = 100) =>
                  /\ outcome.kind = "returned"
                  /\ Abs(outcome.value[1]) * 200 < outcome.value[2]
            /\ (o > 0 /\ pn * (o + 100) = pd * 100) =>
                  /\ outcome.kind = "returned"
                  /\ outcome.value[1] = 0
            /\ (o < 0 /\ pn * (100 - o) = pd * (-o)) =>
                  /\ outcome.kind = "returned"
                  /\ outcome.value[1] = 0

\* the call at p = 0.6, odds -150 and stake 100 has returned the value 0
C11_Witness ==
    /\ ExpectedValueCalled
    /\ 5 * args.probability[1] = 3 * args.probability[2]
    /\ args.odds = -150
    /\ args.bet_amount = 100
    /\ branch = "negative"
    /\ outcome.kind = "returned"
    /\ outcome.value = <<0, 1>>

---------------------------------------------------------------------------
(* Properties of calculate_game_probabilities                              *)
(* (the spec's estimate_game_probabilities).                               *)

GameCalled == op = "calculate_game_probabilities" /\ args.given = 4

\* (home_avg + away_allowed_avg) / 2 of the call, as a rational
HomeRate == <<args.home_team_avg + args.away_allowed_avg, 2>>

\* (away_avg + home_allowed_avg) / 2 of the call, as a rational
AwayRate == <<args.away_team_avg + args.home_allowed_avg, 2>>

\* C12: calculate_game_probabilities blends each side's scoring average
\* with the opponent's allowed average: the returned home_expected_runs is
\* (home_avg + away_allowed_avg) / 2, the returned away_expected_runs is
\* (away_avg + home_allowed_avg) / 2, and the home and away run vectors of
\* the call hold, at each run count 0..15, the Poisson mass at these two
\* rates.
C12_BlendedRates ==
    GameCalled =>
        /\ outcome.kind = "returned"
        /\ outcome.value.home_expected_runs = HomeRate
        /\ outcome.value.away_expected_runs = AwayRate
        /\ Len(frame.home_probs) = 16
        /\ Len(frame.away_probs) = 16
        /\ \A i \in 0..15 :
              /\ frame.home_probs[i + 1] = poisson_pmf(i, HomeRate)
              /\ frame.away_probs[i + 1] = poisson_pmf(i, AwayRate)

\* a call whose four averages make the two blends differ from each other
\* and from the blend with the own allowed average has returned, its home
\* vector starting at exp(-home rate), above the away vector's start
C12_Witness ==
    /\ GameCalled
    /\ outcome.kind = "returned"
    /\ args.home_allowed_avg # args.away_allowed_avg
    /\ args.home_team_avg # args.away_team_avg
    /\ HomeRate[1] > 0
    /\ AwayRate[1] > HomeRate[1]
    /\ outcome.value.home_expected_runs = HomeRate
    /\ frame.home_probs[1] = ExpNeg(HomeRate)
    /\ frame.home_probs[1] > frame.away_probs[1]
    /\ frame.away_probs[1] > 0

\* the sum of f[lo] .. f[hi], NaN if an entry is NaN, taken by halves
RECURSIVE SumRange(_, _, _)
SumRange(f, lo, hi) ==
    IF lo > hi THEN 0
    ELSE IF lo = hi THEN f[lo]
    ELSE LET mid == (lo + hi) \div 2
         IN  NAdd(SumRange(f, lo, mid), SumRange(f, mid + 1, hi))

\* the product p_home(h) * p_away(a) of the call's two vectors, the pair
\* (h, a) of [0, 15] x [0, 15] numbered 16 * h + a
PairProduct ==
    [i \in 0..255 |-> NMul(frame.home_probs[(i \div 16) + 1],
                           frame.away_probs[(i % 16) + 1])]

\* the products of the pairs with h > a, with a > h and with h = a, the
\* other pairs counting for nothing
HomeAhead == [i \in 0..255 |-> IF i \div 16 > i % 16 THEN PairProduct[i] ELSE 0]
AwayAhead == [i \in 0..255 |-> IF i % 16 > i \div 16 THEN PairProduct[i] ELSE 0]
Level == [i \in 0..255 |-> IF i % 16 = i \div 16 THEN PairProduct[i] ELSE 0]

\* the sum of the three returned probabilities
WinTieSum ==
    NAdd(NAdd(outcome.value.home_win_prob, outcome.value.away_win_prob),
         outcome.value.tie_prob)

\* (sum of p_home) * (sum of p_away) over the truncated supports
SumProduct ==
    NMul(SumRange(frame.home_probs, 1, 16), SumRange(frame.away_probs, 1, 16))

\* C13: every pair (h, a) of [0, 15] x [0, 15] contributes its product
\* p_home(h) * p_away(a) to exactly one accumulator: home_win_prob is the sum
\* of the products with h > a, away_win_prob of those with a > h, tie_prob
\* of those with h = a; so the three add up to the sum of all 256 products,
\* which is (sum of p_home) * (sum of p_away): in fixed point each of the
\* 256 products is rounded down by less than one unit, so the sum lies
\* within 256 units below the rounded product of the sums.  With a NaN
\* vector both sides are NaN.
C13_OneAccumulatorPerPair ==
    GameCalled =>
        /\ outcome.kind = "returned"
        /\ outcome.value.home_win_prob = SumRange(HomeAhead, 0, 255)
        /\ outcome.value.away_win_prob = SumRange(AwayAhead, 0, 255)
        /\ outcome.value.tie_prob = SumRange(Level, 0, 255)
        /\ WinTieSum = SumRange(PairProduct, 0, 255)
        /\ IF HomeRate[1] < 0 \/ AwayRate[1] < 0
           THEN WinTieSum = NaN /\ SumProduct = NaN
           ELSE /\ WinTieSum <= SumProduct
                /\ WinTieSum >= SumProduct - 256

\* a call at two different positive rates has returned three positive
\* probabilities, the away side (the higher rate) ahead, whose sum is
\* below 1
C13_Witness ==
    /\ GameCalled
    /\ outcome.kind = "returned"
    /\ HomeRate[1] > 0
    /\ AwayRate[1] > HomeRate[1]
    /\ outcome.value.tie_prob > 0
    /\ outcome.value.home_win_prob > outcome.value.tie_prob
    /\ outcome.value.away_win_prob > outcome.value.home_win_prob
    /\ WinTieSum < Scale
    /\ WinTieSum > 0

\* for a total t, the products p_home(h) * p_away(t - h) of the h in
\* [0, 15] with 0 <= t - h <= 15, the other h counting for nothing
SplitsOf(t) ==
    [h \in 0..15 |-> IF 0 <= t - h /\ t - h <= 15
                     THEN NMul(frame.home_probs[h + 1],
                               frame.away_probs[t - h + 1])
                     ELSE 0]

\* C14: calculate_game_probabilities returns total_runs_probs with key set
\* exactly 0..30 (2 * max_runs, max_runs being 15), the value at each total
\* t being the sum of p_home(h) * p_away(t - h) over exactly the h in
\* [0, 15] with 0 <= t - h <= 15; no pair is missed and none is counted
\* twice: the 31 values add up to the sum of all 256 products.
C14_TotalRuns ==
    GameCalled =>
        /\ outcome.kind = "returned"
        /\ DOMAIN outcome.value.total_runs_probs = 0..30
        /\ \A t \in 0..30 :
              outcome.value.total_runs_probs[t] = SumRange(SplitsOf(t), 0, 15)
        /\ SumRange(outcome.value.total_runs_probs, 0, 30)
               = SumRange(PairProduct, 0, 255)

\* a call at two positive rates has returned a distribution of the total
\* with positive mass at both ends, 0 and 30, and more in the middle
C14_Witness ==
    /\ GameCalled
    /\ outcome.kind = "returned"
    /\ HomeRate[1] > 0
    /\ AwayRate[1] > 0
    /\ outcome.value.total_runs_probs[0] > 0
    /\ outcome.value.total_runs_probs[30] > 0
    /\ outcome.value.total_runs_probs[15] > outcome.value.total_runs_probs[0]
    /\ outcome.value.total_runs_probs[15] > outcome.value.total_runs_probs[30]

\* C15 as stated: a call of calculate_game_probabilities that passes a
\* truncation bound max_runs >= 0 as a fifth argument returns, its home and
\* away vectors ranging over 0..max_runs and its total_runs_probs over
\* 0..2 * max_runs.
C15_AsStated ==
    (/\ op = "calculate_game_probabilities"
     /\ args.given = 5
     /\ args.max_runs >= 0) =>
        /\ outcome.kind = "returned"
        /\ Len(frame.home_probs) = args.max_runs + 1
        /\ Len(frame.away_probs) = args.max_runs + 1
        /\ DOMAIN outcome.value.total_runs_probs = 0..(2 * args.max_runs)

\* the two sides of the call have the same scoring and the same allowed
\* average
SymmetricMatchup ==
    /\ args.home_team_avg = args.away_team_avg
    /\ args.home_allowed_avg = args.away_allowed_avg

\* C16: for a symmetric matchup (home_avg = away_avg and home_allowed_avg =
\* away_allowed_avg) calculate_game_probabilities returns home_win_prob
\* equal to away_win_prob, to within one unit of the resolution 2^-30: the
\* enumeration favours neither side.  (At a negative blend both are NaN.)
C16_SymmetricMatchup ==
    (GameCalled /\ SymmetricMatchup) =>
        /\ outcome.kind = "returned"
        /\ HomeRate = AwayRate
        /\ IF HomeRate[1] < 0
           THEN /\ outcome.value.home_win_prob = NaN
                /\ outcome.value.away_win_prob = NaN
           ELSE /\ outcome.value.home_win_prob >= 0
                /\ Abs(outcome.value.home_win_prob
                           - outcome.value.away_win_prob) <= 1

\* a symmetric call whose scoring and allowed averages differ has returned
\* the same positive win probability for both sides, and a positive tie
C16_Witness ==
    /\ GameCalled
    /\ SymmetricMatchup
    /\ args.home_team_avg # args.home_allowed_avg
    /\ HomeRate[1] > 0
    /\ outcome.kind = "returned"
    /\ outcome.value.home_win_prob > 0
    /\ outcome.value.home_win_prob = outcome.value.away_win_prob
    /\ outcome.value.tie_prob > 0

\* both blended rates of the call lie in [lo / 2, hi / 2]
RatesWithin(lo, hi) ==
    /\ lo <= HomeRate[1]
    /\ HomeRate[1] <= hi
    /\ lo <= AwayRate[1]
    /\ AwayRate[1] <= hi

\* C17: with max_runs = 15, for every pair of expected run rates each in
\* [2, 8], home_win_prob + away_win_prob + tie_prob lies in [0.98, 1.0].
\* (Scale - Scale \div 50 is 0.98 rounded up; the masses are rounded down,
\* so the sum checked is a lower bound of the sum of the exact masses.)
C17_SumWithinTwoPercent ==
    (GameCalled /\ RatesWithin(4, 16)) =>
        /\ outcome.kind = "returned"
        /\ Len(frame.home_probs) = 16
        /\ WinTieSum >= Scale - Scale \div 50
        /\ WinTieSum <= Scale

\* the call at the two highest rates, 8 and 8, has returned three
\* probabilities whose sum is above 0.98 and below 0.99
C17_Witness ==
    /\ GameCalled
    /\ HomeRate[1] = 16
    /\ AwayRate[1] = 16
    /\ outcome.kind = "returned"
    /\ WinTieSum >= Scale - Scale \div 50
    /\ WinTieSum < Scale - Scale \div 100

\* 1 - (home_win_prob + away_win_prob + tie_prob), the mass the truncation
\* drops (an upper bound of it, the masses being rounded down)
TruncationDeficit == Scale - WinTieSum

\* C18 as stated: with max_runs = 15, for every pair of expected run rates
\* each in 3..6 (both ends included) the sum of the three probabilities is
\* less than 0.001 short of 1.
C18_AsStated ==
    (GameCalled /\ RatesWithin(6, 12)) =>
        /\ outcome.kind = "returned"
        /\ TruncationDeficit * 1000 < Scale

\* C18: with max_runs = 15, for every pair of expected run rates each in
\* 3..6 (both ends included), 1 - (home_win_prob + away_win_prob + tie_prob)
\* is less than 0.0011, and it is less than 0.001 whenever at least one of
\* the two rates is at most 5.5.
C18_TruncationDeficit ==
    (GameCalled /\ RatesWithin(6, 12)) =>
        /\ outcome.kind = "returned"
        /\ TruncationDeficit >= 0
        /\ TruncationDeficit * 1000 < Scale + Scale \div 10
        /\ (HomeRate[1] <= 11 \/ AwayRate[1] <= 11) =>
               TruncationDeficit * 1000 < Scale

\* the call at the rates 6 and 6 has returned three probabilities whose
\* sum is between 0.001 and 0.0011 short of 1
C18_Witness ==
    /\ GameCalled
    /\ HomeRate[1] = 12
    /\ AwayRate[1] = 12
    /\ outcome.kind = "returned"
    /\ TruncationDeficit * 1000 >= Scale
    /\ TruncationDeficit * 1000 < Scale + Scale \div 10

---------------------------------------------------------------------------
(* Properties of the three operations together.                            *)

\* the thread has finished the remembered call over again: the same
\* function with the same arguments
SameCallAgain(t) ==
    /\ threads[t].pc = "done"
    /\ earlier.op = threads[t].op
    /\ earlier.args = threads[t].args

\* C19: determinism.  For each of calculate_poisson_probabilities,
\* calculate_game_probabilities and calculate_expected_value, a call with
\* the same arguments as an earlier call returns (or raises) what the
\* earlier call did, whichever calls were made before the earlier call,
\* between the two and beside them: nothing a call leaves behind enters
\* the result of another.
C19_Determinism ==
    \A t \in Threads :
        SameCallAgain(t) => threads[t].result = earlier.outcome

\* a call of calculate_expected_value that returned a non-zero value was
\* remembered, a call of another function was made and has finished, and
\* the same call made again has returned the same value
C19_Witness ==
    \E t \in Threads, u \in Threads :
        /\ t # u
        /\ SameCallAgain(t)
        /\ threads[t].op = "calculate_expected_value"
        /\ earlier.between = 2
        /\ threads[t].result.kind = "returned"
        /\ threads[t].result.value[1] # 0
        /\ threads[t].result = earlier.outcome
        /\ threads[u].pc = "done"
        /\ threads[u].op = "calculate_poisson_probabilities"

\* the outcome of a thread's call when the call runs alone
AloneOutcome(thread) ==
    CASE thread.op = "calculate_expected_value" ->
             calculate_expected_value(thread.args.probability,
                                      thread.args.odds,
                                      thread.args.bet_amount)
      [] thread.op = "calculate_poisson_probabilities" ->
             calculate_poisson_probabilities(thread.args.team_avg,
                                             thread.args.opponent_avg,
                                             thread.args.max_runs)
      [] thread.op = "calculate_game_probabilities" ->
             calculate_game_probabilities(thread.args.home_team_avg,
                                          thread.args.away_team_avg,
                                          thread.args.home_allowed_avg,
                                          thread.args.away_allowed_avg)

\* C20: the three operations read and write no state outside their
\* arguments, locals and return value: however the steps of concurrent
\* calls interleave, every call that finishes has the result it has when
\* it runs alone.
C20_InterleavingIndependent ==
    \A t \in Threads :
        threads[t].pc = "done" => threads[t].result = AloneOutcome(threads[t])

\* one thread has finished a call of calculate_game_probabilities while
\* the other, started on a call with other arguments, is part way through
\* its enumeration of the scores
C20_Witness ==
    \E t \in Threads, u \in Threads :
        /\ t # u
        /\ threads[t].pc = "done"
        /\ threads[t].op = "calculate_game_probabilities"
        /\ threads[t].result.kind = "returned"
        /\ threads[t].result.value.home_win_prob > 0
        /\ threads[u].pc = "gp_wins"
        /\ threads[u].args # threads[t].args
        /\ threads[u].locals.home_runs > 0
        /\ threads[u].locals.home_runs < 15

\* what calculate_poisson_probabilities(team_avg, opponent_avg, 15) returns
RunDistribution(team_avg, opponent_avg) ==
    calculate_poisson_probabilities(team_avg, opponent_avg, 15)

\* a list of 16 entries holds, at each run count 0..15, the value the
\* returned dictionary of a run distribution has at that key
SameVector(list, dictionary) ==
    /\ dictionary.kind = "returned"
    /\ DOMAIN dictionary.value = 0..15
    /\ Len(list) = 16
    /\ \A runs \in 0..15 : list[runs + 1] = dictionary.value[runs]

\* C21: calculate_game_probabilities pairs each side with the opponent's
\* allowed average as calculate_poisson_probabilities does: for every call
\* its home run vector equals, at each run count 0..15, the dictionary
\* calculate_poisson_probabilities(home_avg, away_allowed_avg, 15) returns,
\* and its away run vector equals calculate_poisson_probabilities(away_avg,
\* home_allowed_avg, 15); at a negative blended rate both hold NaN at
\* every run count.
C21_MirrorsRunDistribution ==
    GameCalled =>
        /\ SameVector(frame.home_probs,
                      RunDistribution(args.home_team_avg,
                                      args.away_allowed_avg))
        /\ SameVector(frame.away_probs,
                      RunDistribution(args.away_team_avg,
                                      args.home_allowed_avg))

\* a call whose two allowed averages differ, so that pairing a side with
\* its own allowed average would give other vectors, has built two
\* different vectors of positive masses
C21_Witness ==
    /\ GameCalled
    /\ args.home_allowed_avg # args.away_allowed_avg
    /\ args.home_team_avg = args.away_team_avg
    /\ HomeRate[1] > 0
    /\ AwayRate[1] > 0
    /\ frame.home_probs[1] > 0
    /\ frame.home_probs # frame.away_probs

\* C23: in calculate_game_probabilities the values of total_runs_probs over
\* all totals 0..30 add up to home_win_prob + away_win_prob + tie_prob:
\* each is the sum of p_home(h) * p_away(a) over the whole cross product,
\* so the distribution of the total and the three outcome probabilities
\* fall short of 1 by the same amount (both are NaN when a vector is NaN).
C23_SameDeficit ==
    GameCalled =>
        /\ outcome.kind = "returned"
        /\ SumRange(outcome.value.total_runs_probs, 0, 30) = WinTieSum
        /\ WinTieSum # NaN =>
               Scale - SumRange(outcome.value.total_runs_probs, 0, 30)
                   = TruncationDeficit

\* a call at two high rates has returned: the three probabilities fall
\* short of 1 by a visible amount, and the total 30, reached only by the
\* pair (15, 15), has positive mass
C23_Witness ==
    /\ GameCalled
    /\ outcome.kind = "returned"
    /\ HomeRate[1] >= 2 * 6
    /\ AwayRate[1] >= 2 * 6
    /\ WinTieSum # NaN
    /\ TruncationDeficit > Scale \div 2000
    /\ outcome.value.total_runs_probs[30] > 0

---------------------------------------------------------------------------
(* Properties of APIKeyManager.                                            *)

\* the manager has a url and a token
has_config(self) == has_url(self) /\ has_token(self)

\* a call of get_key has returned in the last step
GetKeyReturned == key_manager.call.method = "get_key"

\* C22 as stated: once the manager has obtained a key's value from the web
\* app, a get_key call for that key that begins later returns from the
\* cache and does not contact the web app.
C22_AsStated ==
    (GetKeyReturned /\ key_manager.call.later)
        => /\ key_manager.call.source = "cached"
           /\ ~key_manager.call.contacted

\* what a get_key call that has returned did, by the return statement it
\* took, and what cached_keys holds
C22_Returns ==
    /\ DOMAIN key_manager.cached_keys \subseteq key_manager.obtained
    /\ \A k \in DOMAIN key_manager.cached_keys :
           key_manager.cached_keys[k] \in WebValues
    /\ GetKeyReturned =>
        LET call == key_manager.call
            answered == /\ call.response.kind = "value"
                        /\ call.response.value # ""
        IN  /\ call.source \in {"cached", "KeyError", "environment",
                                "web_app", "default"}
            /\ call.found <=> call.source \in {"cached", "KeyError"}
            /\ call.source = "cached" =>
                   /\ call.key_name \in DOMAIN key_manager.cached_keys
                   /\ call.value = key_manager.cached_keys[call.key_name]
                   /\ ~call.contacted
            /\ call.source = "KeyError" =>
                   /\ call.key_name \notin DOMAIN key_manager.cached_keys
                   /\ ~call.contacted
            /\ call.source = "environment" =>
                   /\ Truthy(call.env_value)
                   /\ call.value = call.env_value
                   /\ ~call.contacted
            /\ call.source = "web_app" =>
                   /\ ~Truthy(call.env_value)
                   /\ call.contacted /\ answered
                   /\ call.value = call.response.value
                   /\ call.key_name \in DOMAIN key_manager.cached_keys
                   /\ key_manager.cached_keys[call.key_name] = call.value
            /\ call.source = "default" =>
                   /\ ~Truthy(call.env_value)
                   /\ call.value = call.default
                   /\ call.contacted => ~answered
                   /\ ~call.contacted => ~has_config(key_manager)
            /\ Truthy(call.env_value) => call.source = "environment"
            /\ (call.contacted /\ answered) => call.source = "web_app"

\* a get_key call takes the cached branch exactly when its test finds the
\* key in cached_keys
C22_FindsCached ==
    \A c \in Callers :
        (key_manager.callers[c].pc = "idle"
            /\ key_manager'.callers[c].pc \in {"read_cache", "getenv"})
        => (key_manager'.callers[c].pc = "read_cache"
               <=> key_manager'.callers[c].key_name
                       \in DOMAIN key_manager.cached_keys)

\* cached_keys stays as it is, entry by entry, except that a get_key call
\* returning the web app's value stores that value under its key, and the
\* data of get_all_keys_from_web_app replace the whole dictionary
C22_CacheKept ==
    \/ key_manager'.cached_keys = key_manager.cached_keys
    \/ /\ key_manager'.call.method = "get_key"
       /\ key_manager'.call.source = "web_app"
       /\ key_manager'.cached_keys =
              SetItem(key_manager.cached_keys, key_manager'.call.key_name,
                      key_manager'.call.value)
    \/ /\ key_manager'.call.method = "get_all_keys_from_web_app"
       /\ key_manager'.call.response.kind = "data"
       /\ key_manager'.cached_keys = key_manager'.call.response.data

\* C22: get_key returns, in this order of priority, (1) the cached value
\* when it finds key_name in cached_keys, (2) the environment variable when
\* it is set and not empty, (3) the web app's value when the manager has a
\* url and a token and the web app answers a non-empty value, (4) the
\* default.  A call that finds the key in cached_keys returns the value
\* cached_keys holds when it reads it, without contacting the web app, and
\* raises KeyError when the key is no longer there (another thread's
\* get_all_keys_from_web_app has replaced cached_keys meanwhile).  Only a
\* value from the web app is stored: it is in cached_keys[key_name] when
\* the call returns; the values in cached_keys are values of the web app,
\* for keys the manager has obtained, never environment or default values.
\* A stored value stays in cached_keys, where later get_key calls for the
\* key find it, until a get_key call stores the web app's value for the
\* key again or get_all_keys_from_web_app replaces cached_keys.
C22_PriorityAndCaching ==
    /\ []C22_Returns
    /\ [][C22_FindsCached /\ C22_CacheKept]_vars

\* get_key has returned a key from the cache that an earlier call obtained
\* from the web app, while the other caller waits for the web app's answer
\* for the same key
C22_Witness ==
    /\ GetKeyReturned
    /\ key_manager.call.source = "cached"
    /\ key_manager.call.later
    /\ key_manager.call.value = "web-key-1"
    /\ \E c \in Callers :
           /\ key_manager.callers[c].pc = "request"
           /\ key_manager.callers[c].key_name = key_manager.call.key_name

---------------------------------------------------------------------------
(* Properties of MLBErrorHandler.                                          *)

\* C27 as stated: whenever handle_error classifies the error as critical
\* (_is_critical_error is true), system_status["status"] is "critical" when
\* handle_error returns, whatever errors were handled before.
C27_AsStated ==
    (handled.method = "handle_error" /\ handled.critical)
        => error_handler.system_status.status = "critical"

\* what get_system_health reports in the present state
Health == get_system_health(error_handler)

\* C28 as stated: right after reset_error_counts, whatever errors were
\* handled before, get_system_health reports the status "healthy",
\* total_errors 0, recent_errors 0 and an empty error_summary; and in every
\* reachable state the reported total_errors is the sum of the counts in
\* error_summary.
C28_AsStated ==
    /\ handled.method = "reset_error_counts"
           => /\ Health.status = "healthy"
              /\ Health.total_errors = 0
              /\ Health.recent_errors = 0
              /\ DOMAIN Health.error_summary = {}
    /\ Health.total_errors
           = SumCounts(Health.error_summary, DOMAIN Health.error_summary)

---------------------------------------------------------------------------
(* Properties of retry_on_failure.  An invocation fails when it raises an  *)
(* Exception; a KeyboardInterrupt or SystemExit is no Exception and passes *)
(* through the wrapper at once.                                            *)

\* every invocation so far has failed
EveryInvocationFailed ==
    retry.invocations > 0 /\ Len(retry.raised) = retry.invocations

\* C24: a function wrapped by retry_on_failure(max_retries, delay, backoff)
\* is invoked at most max_retries + 1 times in a call of the wrapper.  When
\* an invocation returns, the wrapper returns its result at once: every
\* earlier invocation had failed, and handle_error was not called.  When
\* every invocation has failed, there were max_retries + 1 of them, the
\* wrapper raises the exception of the last one, and handle_error was called
\* exactly once, with that exception; before the final failure it is not
\* called.  The k-th retry (k = 0, 1, ...) waits delay * backoff^k.
C24_RetryOnFailure ==
    retry.pc # "idle" =>
        /\ retry.invocations <= retry.max_retries + 1
        /\ Len(retry.waits) = retry.attempt
        /\ \A k \in 0..(Len(retry.waits) - 1) :
               retry.waits[k + 1] = retry.delay * Power(retry.backoff, k)
        /\ retry.pc # "done" => retry.handle_error_calls = 0
        /\ retry.pc = "done" =>
               /\ retry.outcome.kind \in {"returned", "raised"}
               /\ retry.outcome.kind = "returned" =>
                      /\ retry.outcome.value = "result"
                      /\ retry.outcome.invocation = retry.invocations
                      /\ Len(retry.raised) = retry.invocations - 1
                      /\ retry.handle_error_calls = 0
               /\ EveryInvocationFailed =>
                      /\ retry.invocations = retry.max_retries + 1
                      /\ retry.outcome.kind = "raised"
                      /\ retry.outcome.error
                             = retry.raised[retry.invocations]
                      /\ retry.handle_error_calls = 1
                      /\ DOMAIN retry.error_handler.error_counts =
                             {<<WrappedName, retry.outcome.error.type>>}
                      /\ Get(retry.error_handler.system_status,
                             "total_errors", 0) = 1
               /\ ~EveryInvocationFailed => retry.handle_error_calls = 0

\* a call with two retries has failed three times, the last exception
\* differing from the first: it raised the last one after waiting 2 and 4
\* seconds and calling handle_error once
C24_Witness ==
    /\ retry.pc = "done"
    /\ retry.max_retries = 2
    /\ retry.invocations = 3
    /\ Len(retry.raised) = 3
    /\ retry.raised[1] # retry.raised[3]
    /\ retry.outcome.kind = "raised"
    /\ retry.outcome.error = retry.raised[3]
    /\ retry.waits = <<2, 4>>
    /\ retry.handle_error_calls = 1

---------------------------------------------------------------------------
(* Properties of MLBAutomationScheduler.                                   *)

\* the alive polling threads that found is_running true since the latest
\* start_scheduler, and so go on looping
LoopingPolling == {t \in AlivePolling : scheduler.polling[t].looped}

\* C25 as stated: after any sequence of start_scheduler and stop_scheduler
\* calls at most one polling thread is alive and looping on is_running; a
\* stop_scheduler followed by start_scheduler never leaves the earlier
\* thread running beside the new one.
C25_AsStated == Cardinality(LoopingPolling) <= 1

\* the number of registrations of a job in the job list
Registrations(job) ==
    Cardinality({i \in 1..Len(scheduler.jobs) : scheduler.jobs[i] = job})

\* C26 as stated: after any sequence of start_scheduler and stop_scheduler
\* calls (setup_schedules never called from outside them, no call under
\* way) each of the five jobs is registered at most once: a start while
\* is_running registers nothing, and a stop followed by a start leaves no
\* duplicate registration.
C26_AsStated ==
    (scheduler.direct_setups = 0 /\ scheduler.caller = "ready")
        => \A i \in 1..Len(ScheduledJobs) :
               Registrations(ScheduledJobs[i]) <= 1

---------------------------------------------------------------------------
(* Properties of the aggregation of update_ev_poisson                      *)

\* the sum of total(team) over a set of teams
RECURSIVE SumOverTeams(_, _, _)
SumOverTeams(team_stats, teams, field) ==
    IF teams = {} THEN 0
    ELSE LET team == CHOOSE t \in teams : TRUE
         IN  SumSeq(team_stats[team][field])
                 + SumOverTeams(team_stats, teams \ {team}, field)

\* the lists of a team before it is known are empty
ListsOf(team_stats, team) ==
    IF team \in DOMAIN team_stats THEN team_stats[team]
    ELSE [runs_scored |-> <<>>, runs_allowed |-> <<>>]

\* the last row read has both team names and two scores that are numbers,
\* numeric strings or empty
RowIsNumeric(row) ==
    /\ row.home_team # "" /\ row.away_team # ""
    /\ row.home_score.kind # "text" /\ row.away_score.kind # "text"

\* how many of the row's two sides team plays
SidesOf(row, team) ==
    (IF row.home_team = team THEN 1 ELSE 0)
        + (IF row.away_team = team THEN 1 ELSE 0)

\* the last row read added one entry to both lists of each of its teams
\* (two when the team is on both sides) and nothing to any other list
RowContributedToBoth ==
    \A team \in DOMAIN aggregation.team_stats :
        LET now == aggregation.team_stats[team]
            was == ListsOf(aggregation.before, team)
            sides == SidesOf(aggregation.row, team)
        IN  /\ Len(now.runs_scored) = Len(was.runs_scored) + sides
            /\ Len(now.runs_allowed) = Len(was.runs_allowed) + sides
            /\ SubSeq(now.runs_scored, 1, Len(was.runs_scored))
                   = was.runs_scored
            /\ SubSeq(now.runs_allowed, 1, Len(was.runs_allowed))
                   = was.runs_allowed

\* the last row read changed no list
RowContributedToNeither ==
    \A team \in DOMAIN aggregation.team_stats :
        aggregation.team_stats[team] = ListsOf(aggregation.before, team)

\* C29: in the aggregation of update_ev_poisson, after any sequence of
\* rows, every team's runs_scored and runs_allowed lists have the same
\* length, which is the games_played written for the team; the last row
\* read has contributed to both of its teams when its team names are
\* present and its scores numeric, and otherwise has changed no list; and
\* the total of all runs_scored equals the total of all runs_allowed.
C29_BalancedAggregation ==
    aggregation.pc # "idle" =>
        /\ \A team \in DOMAIN aggregation.team_stats :
               Len(aggregation.team_stats[team].runs_scored)
                   = Len(aggregation.team_stats[team].runs_allowed)
        /\ \A team \in DOMAIN aggregation.ev_rows :
               aggregation.ev_rows[team].games_played
                   = Len(aggregation.team_stats[team].runs_allowed)
        /\ aggregation.rows > 0 =>
               IF RowIsNumeric(aggregation.row)
               THEN RowContributedToBoth
               ELSE RowContributedToNeither
        /\ SumOverTeams(aggregation.team_stats,
                        DOMAIN aggregation.team_stats, "runs_scored")
               = SumOverTeams(aggregation.team_stats,
                              DOMAIN aggregation.team_stats, "runs_allowed")

\* two rows were read, the first counted for both teams and the second,
\* with a home score that is no number, changed nothing; the averages are
\* written
C29_Witness ==
    /\ aggregation.pc = "written"
    /\ aggregation.rows = 2
    /\ aggregation.row.home_score.kind = "text"
    /\ aggregation.row.home_team = "NYY"
    /\ aggregation.row.away_team = "BOS"
    /\ DOMAIN aggregation.ev_rows = {"NYY", "BOS"}
    /\ aggregation.team_stats["NYY"].runs_scored = <<MaxScore>>
    /\ aggregation.team_stats["NYY"].runs_allowed = <<MaxScore - 1>>
    /\ aggregation.ev_rows["BOS"].games_played = 1

---------------------------------------------------------------------------
(* Properties of run_ev_poisson_analysis                                   *)

\* the game with index i (from 0) is processed without error: it has its
\* team names, and its park entry, if any, holds no factor or a number
\* with which the win probability does not overflow
ProcessedWithoutError(i) ==
    /\ analysis.games[i + 1].kind = "game"
    /\ i < Len(analysis.parks) =>
           /\ analysis.parks[i + 1].kind # "text"
           /\ analysis.parks[i + 1].kind = "number" =>
                  ~exp_overflows(
                      RSub(lam_home_of(analysis.parks[i + 1].tenths),
                           lam_away_of(analysis.parks[i + 1].tenths)))

\* the indexes of the games read so far that are processed without error
SoundGames == {i \in 0..(analysis.i - 1) : ProcessedWithoutError(i)}

\* parks[i]'s factor in tenths; an entry without the key counts as 1.0
ParkFactorAt(i) ==
    IF i < Len(analysis.parks)
    THEN IF analysis.parks[i + 1].kind = "number"
         THEN analysis.parks[i + 1].tenths
         ELSE DefaultParkFactor
    ELSE DefaultParkFactor

\* C30: run_ev_poisson_analysis emits exactly one row per game that is
\* processed without error, in input order; a game whose pass raises is
\* skipped, and every row is the row its game gets with its own park
\* entry, whatever the other games are; in every row the unrounded home and
\* away win probabilities sum to 1, and the park factor is that of
\* parks[i] when i < len(parks) and 1.0 otherwise.
C30_OneRowPerSoundGame ==
    analysis.pc # "idle" =>
        /\ Len(analysis.game_analyzer) = Cardinality(SoundGames)
        /\ Len(analysis.emitted) = Len(analysis.game_analyzer)
        /\ \A n \in 1..Len(analysis.emitted) :
               LET i == analysis.emitted[n].game
               IN  /\ i \in SoundGames
                   /\ n > 1 => analysis.emitted[n - 1].game < i
                   /\ analysis.game_analyzer[n].home_team
                          = analysis.games[i + 1].home
                   /\ analysis.game_analyzer[n].away_team
                          = analysis.games[i + 1].away
                   /\ analysis.game_analyzer[n]
                          = analyse_game(analysis.games[i + 1],
                                         ParkFactorAt(i)).row
                   /\ analysis.emitted[n].home_win_prob
                          + analysis.emitted[n].away_win_prob = Scale
                   /\ analysis.emitted[n].park_factor = ParkFactorAt(i)
                   /\ analysis.game_analyzer[n].lam_home
                          = BaseLamHome * ParkFactorAt(i)

\* three games were given with two parks: the first raised for want of
\* team names, the second got the factor of parks[1] and the third, beyond
\* the end of parks, the factor 1.0; both rows are returned
C30_Witness ==
    /\ analysis.pc = "returned"
    /\ Len(analysis.games) = 3
    /\ Len(analysis.parks) = 2
    /\ analysis.games[1].kind = "no_teams"
    /\ analysis.parks[1].kind = "number"
    /\ analysis.parks[1].tenths = DefaultParkFactor - ParkSpread
    /\ analysis.parks[2].kind = "number"
    /\ analysis.parks[2].tenths = DefaultParkFactor + ParkSpread
    /\ Len(analysis.game_analyzer) = 2
    /\ analysis.emitted[1].game = 1
    /\ analysis.emitted[1].park_factor = DefaultParkFactor + ParkSpread
    /\ analysis.emitted[2].game = 2
    /\ analysis.emitted[2].park_factor = DefaultParkFactor
    /\ analysis.game_analyzer[1].home_win_prob
           > analysis.game_analyzer[2].home_win_prob

=============================================================================
